---- MODULE Spec2Model ----
(***************************************************************************)
(* Telemetry ingestion and governance engine of n8n-mcp: the PostgreSQL    *)
(* schema, row level security policies, stored functions, views and audit  *)
(* trigger of the telemetry database, together with the client calls that  *)
(* the validation scripts issue against it.                                *)
(*                                                                         *)
(* SQL values are nullable: NULL is the empty tuple and a non-null value v *)
(* is the one-element tuple <<v>>.  SQL conditions are three-valued.       *)
(***************************************************************************)
EXTENDS Integers, Sequences, FiniteSets, TLC

(***************************************************************************)
(* Bounds of the model.                                                    *)
(***************************************************************************)
MaxIds == 2         \* rows ever given a generated identifier
MaxTick == 0        \* instants explored after the start and after the horizon
MaxAudit == 4       \* audit rows written
NumWriters == 2     \* concurrent writers of the workflows table

(***************************************************************************)
(* SQL values and three-valued logic.                                      *)
(***************************************************************************)
NULL == <<>>
Some(v) == <<v>>
IsNull(x) == x = NULL
Val(x) == x[1]

T3 == "true"
F3 == "false"
U3 == "unknown"
Bool3(b) == IF b THEN T3 ELSE F3
Or3(a, b) ==
    IF a = T3 \/ b = T3 THEN T3
    ELSE IF a = F3 /\ b = F3 THEN F3
    ELSE U3
And3(a, b) ==
    IF a = F3 \/ b = F3 THEN F3
    ELSE IF a = T3 /\ b = T3 THEN T3
    ELSE U3
Not3(a) == IF a = T3 THEN F3 ELSE IF a = F3 THEN T3 ELSE U3

\* comparison of a nullable value with a literal
Lt3(a, n) == IF IsNull(a) THEN U3 ELSE Bool3(Val(a) < n)
Le3(a, n) == IF IsNull(a) THEN U3 ELSE Bool3(Val(a) <= n)
Gt3(a, n) == IF IsNull(a) THEN U3 ELSE Bool3(Val(a) > n)
Ge3(a, n) == IF IsNull(a) THEN U3 ELSE Bool3(Val(a) >= n)
Eq3(a, v) == IF IsNull(a) THEN U3 ELSE Bool3(Val(a) = v)
Ne3(a, v) == Not3(Eq3(a, v))
In3(a, S) == IF IsNull(a) THEN U3 ELSE Bool3(Val(a) \in S)

\* a PL/pgSQL IF takes its branch only when the condition is true
IfTaken(c) == c = T3
\* a CHECK constraint is violated only when the condition is false
CheckHolds(c) == c # F3

\* length(text), jsonb_typeof(jsonb), array_length(anyarray, 1)
length(s) == IF IsNull(s) THEN NULL ELSE Some(Len(Val(s)))
\* variant: an array passes for an object
jsonb_typeof_lax(j) ==
    IF IsNull(j) THEN NULL
    ELSE IF Val(j).type = "array" THEN Some("object")
    ELSE Some(Val(j).type)
jsonb_typeof(j) == IF IsNull(j) THEN NULL ELSE Some(Val(j).type)
array_length(a) ==
    IF IsNull(a) THEN NULL
    ELSE IF Len(Val(a)) = 0 THEN NULL
    ELSE Some(Len(Val(a)))

RECURSIVE Rep(_, _)
Rep(s, n) == IF n = 0 THEN "" ELSE s \o Rep(s, n - 1)

(***************************************************************************)
(* State.                                                                  *)
(***************************************************************************)
VARIABLES
    telemetry_events,      \* rows of the events table
    telemetry_workflows,   \* rows of the workflows table
    telemetry_audit_log,   \* rows of the audit log
    nextId,                \* uuid_generate_v4(): the next unused identifier
    now,                   \* NOW()
    last,                  \* the last call: who called what, and what came back
    req,                   \* the submission under test of the validation runs
    txn,                   \* the open transactions of the concurrent writers
    catalog                \* which tables are partitioned, and their partitions

vars == <<telemetry_events, telemetry_workflows, telemetry_audit_log,
          nextId, now, last, req, txn, catalog>>
stores == <<telemetry_events, telemetry_workflows, telemetry_audit_log>>

(***************************************************************************)
(* Access control: roles, table privileges, row level security policies.   *)
(***************************************************************************)
Owner == "postgres"            \* owns the tables, functions and views
Roles == {"anon", "service_role", "authenticated"}
Tables == {"telemetry_events", "telemetry_workflows"}
Commands == {"SELECT", "INSERT", "UPDATE", "DELETE"}

\* Table privileges.  The GRANT statements are applied apart from the setup
\* script; the validation scripts state their effect: anon may INSERT into the
\* two telemetry tables and gets "permission denied" on anything else, the
\* service role may do everything, any other role has no privilege.
HasPrivilege(user, table, cmd) ==
    \/ user = Owner
    \/ user = "service_role"
    \/ user = "anon" /\ cmd = "INSERT" /\ table \in Tables

\* variant: a further policy lets anon read the events
PoliciesAnonReads ==
    {[table |-> "telemetry_events", cmd |-> "INSERT", role |-> "anon"],
     [table |-> "telemetry_events", cmd |-> "SELECT", role |-> "anon"],
     [table |-> "telemetry_workflows", cmd |-> "INSERT", role |-> "anon"],
     [table |-> "telemetry_events", cmd |-> "ALL", role |-> "service_role"],
     [table |-> "telemetry_workflows", cmd |-> "ALL", role |-> "service_role"],
     [table |-> "telemetry_audit_log", cmd |-> "ALL", role |-> "service_role"]}

\* CREATE POLICY ... FOR cmd TO role: the policies of the setup script
Policies ==
    {[table |-> "telemetry_events", cmd |-> "INSERT", role |-> "anon"],
     [table |-> "telemetry_workflows", cmd |-> "INSERT", role |-> "anon"],
     [table |-> "telemetry_events", cmd |-> "ALL", role |-> "service_role"],
     [table |-> "telemetry_workflows", cmd |-> "ALL", role |-> "service_role"],
     [table |-> "telemetry_audit_log", cmd |-> "ALL", role |-> "service_role"]}

\* row level security is enabled on the three tables and not forced: the owner
\* bypasses it, every other role needs a permissive policy for the command
PolicyPermits(user, table, cmd) ==
    \/ user = Owner
    \/ \E p \in Policies :
          /\ p.table = table
          /\ p.role = user
          /\ p.cmd \in {cmd, "ALL"}

\* variant: row level security is not enabled
VisibleRowsWithoutRLS(user, table, cmd, rows) == rows

\* the rows of a table that a SELECT, UPDATE or DELETE of this user can see
VisibleRows(user, table, cmd, rows) ==
    IF PolicyPermits(user, table, cmd) THEN rows ELSE {}

\* CREATE FUNCTION leaves EXECUTE with PUBLIC and the script revokes nothing
CanExecute(user, fn) == TRUE

\* a SECURITY DEFINER function runs its statements as its owner; current_setting('role')
\* keeps the caller's role
EffectiveUser(caller, securityDefiner) ==
    IF securityDefiner THEN Owner ELSE caller

(***************************************************************************)
(* The error taxonomy of the ingestion surface, by SQLSTATE name.          *)
(***************************************************************************)
ErrorClass(err) ==
    CASE err = "ok" -> "ok"
      [] err = "insufficient_privilege" -> "PermissionDenied"
      [] err \in {"raise_exception", "check_violation", "not_null_violation",
                  "string_data_right_truncation"} -> "ValidationError"
      [] err = "unique_violation" -> "Conflict"
      [] OTHER -> "StorageError"

(***************************************************************************)
(* Audit log and audit trigger.                                            *)
(***************************************************************************)
IntegerValue(n) == [type |-> "integer", v |-> n]
\* variant: the truth value is written as an integer
BooleanAsInteger(b) == [type |-> "integer", v |-> IF b THEN 1 ELSE 0]
BooleanValue(b) == [type |-> "boolean", v |-> IF b THEN 1 ELSE 0]

\* INSERT INTO telemetry_audit_log (operation, table_name, record_count,
\* user_role, metadata): record_count is an INTEGER column, and a boolean
\* has no assignment cast to integer
AuditInsertError(user, record_count) ==
    IF ~IsNull(record_count) /\ Val(record_count).type # "integer"
        THEN "datatype_mismatch"
    ELSE IF ~HasPrivilege(user, "telemetry_audit_log", "INSERT")
        THEN "insufficient_privilege"
    ELSE IF ~PolicyPermits(user, "telemetry_audit_log", "INSERT")
        THEN "insufficient_privilege"
    ELSE "ok"

AuditRow(operation, table_name, record_count, user_role, metadata) ==
    [operation |-> operation, table_name |-> table_name,
     record_count |-> record_count, user_role |-> user_role,
     metadata |-> metadata, created_at |-> now]

\* does the trigger write an audit row for this row operation
AuditWanted(TG_OP, role) ==
    TG_OP # "INSERT" \/ (TG_OP = "INSERT" /\ role # "anon")

\* audit_telemetry_changes(), AFTER INSERT OR UPDATE OR DELETE FOR EACH ROW, for
\* the n rows of one statement: the error it raises, if any
audit_telemetry_changes(TG_OP, TG_TABLE_NAME, user, role, n) ==
    IF n > 0 /\ AuditWanted(TG_OP, role)
        THEN AuditInsertError(user, Some(BooleanValue(TRUE)))
        ELSE "ok"

\* variant: the trigger writes its row for every role
TriggerAuditRowsForAll(TG_OP, TG_TABLE_NAME, role, n) ==
    [i \in 1 .. n |->
        AuditRow(TG_OP, TG_TABLE_NAME, Some(BooleanValue(TRUE)), role,
                 [operation |-> TG_OP, table |-> TG_TABLE_NAME])]

\* the audit rows the trigger has written when the statement ends without error
TriggerAuditRows(TG_OP, TG_TABLE_NAME, role, n) ==
    IF AuditWanted(TG_OP, role)
        THEN [i \in 1 .. n |->
                 AuditRow(TG_OP, TG_TABLE_NAME, Some(BooleanValue(TRUE)), role,
                          [operation |-> TG_OP, table |-> TG_TABLE_NAME])]
        ELSE <<>>

(***************************************************************************)
(* telemetry_events: columns, constraints, INSERT.                         *)
(***************************************************************************)
UserIdMaxLen == 64      \* user_id VARCHAR(64)
UserIdMinLenLoose == 16 - 1   \* variant: one character less is enough
UserIdMinLen == 16      \* CHECK (length(user_id) >= 16)
EventMaxLen == 100      \* event VARCHAR(100), CHECK length(event) <= 100
EventMinLen == 1        \* CHECK (length(event) >= 1)
HashLen == 64           \* workflow_hash VARCHAR(64), CHECK length = 64
ComplexityMaxLen == 20  \* complexity VARCHAR(20)
\* variant: a fourth value is let through
ComplexityEnumWide == {"simple", "medium", "complex", "huge"}
ComplexityEnum == {"simple", "medium", "complex"}

\* variant: no value is too long for the column
TooLongNever(s, n) == FALSE
\* a value longer than VARCHAR(n) is rejected on assignment to the column, unless
\* the characters beyond the n-th are all spaces
TooLong(s, n) ==
    /\ ~IsNull(s)
    /\ Len(Val(s)) > n
    /\ SubSeq(Val(s), n + 1, Len(Val(s))) # Rep(" ", Len(Val(s)) - n)

\* the value a VARCHAR(n) column receives: trailing spaces beyond n are cut off
Assigned(s, n) ==
    IF IsNull(s) \/ Len(Val(s)) <= n THEN s ELSE Some(SubSeq(Val(s), 1, n))

\* the column and CHECK constraints of telemetry_events on the values of a new row
EventsConstraintError(user_id, event, properties) ==
    IF TooLong(user_id, UserIdMaxLen) \/ TooLong(event, EventMaxLen)
        THEN "string_data_right_truncation"
    ELSE IF IsNull(user_id) \/ IsNull(event) \/ IsNull(properties)
        THEN "not_null_violation"
    ELSE IF ~CheckHolds(Ge3(length(user_id), UserIdMinLen))
        THEN "check_violation"
    ELSE IF ~CheckHolds(And3(Ge3(length(event), EventMinLen),
                             Le3(length(event), EventMaxLen)))
        THEN "check_violation"
    ELSE IF ~CheckHolds(Eq3(jsonb_typeof(properties), "object"))
        THEN "check_violation"
    ELSE "ok"

\* INSERT INTO telemetry_events (user_id, event, properties) VALUES (...), run by
\* `user` under the role setting `role`: privilege, row level security, the
\* constraints, then the AFTER ROW audit trigger
EventsInsertError(user, role, user_id, event, properties) ==
    IF ~HasPrivilege(user, "telemetry_events", "INSERT")
        THEN "insufficient_privilege"
    ELSE IF TooLong(user_id, UserIdMaxLen) \/ TooLong(event, EventMaxLen)
        THEN "string_data_right_truncation"
    ELSE IF ~PolicyPermits(user, "telemetry_events", "INSERT")
        THEN "insufficient_privilege"
    ELSE IF EventsConstraintError(Assigned(user_id, UserIdMaxLen),
                                  Assigned(event, EventMaxLen), properties) # "ok"
        THEN EventsConstraintError(Assigned(user_id, UserIdMaxLen),
                                   Assigned(event, EventMaxLen), properties)
    ELSE audit_telemetry_changes("INSERT", "telemetry_events", user, role, 1)

EventRow(id, user_id, event, properties) ==
    [id |-> id, user_id |-> Val(Assigned(user_id, UserIdMaxLen)),
     event |-> Val(Assigned(event, EventMaxLen)),
     properties |-> Val(properties), created_at |-> now]

\* variant: the user_id check is <= instead of <
EventValidationErrorStrict(p_user_id, p_event, p_properties) ==
    IF IfTaken(Le3(length(p_user_id), UserIdMinLen))
        THEN "raise_exception"
    ELSE IF IfTaken(Or3(Lt3(length(p_event), EventMinLen),
                        Gt3(length(p_event), EventMaxLen)))
        THEN "raise_exception"
    ELSE IF IfTaken(Ne3(jsonb_typeof(p_properties), "object"))
        THEN "raise_exception"
    ELSE "ok"

\* insert_telemetry_event(p_user_id, p_event, p_properties): the error of the
\* validation block, before the INSERT
EventValidationError(p_user_id, p_event, p_properties) ==
    IF IfTaken(Lt3(length(p_user_id), UserIdMinLen))
        THEN "raise_exception"
    ELSE IF IfTaken(Or3(Lt3(length(p_event), EventMinLen),
                        Gt3(length(p_event), EventMaxLen)))
        THEN "raise_exception"
    ELSE IF IfTaken(Ne3(jsonb_typeof(p_properties), "object"))
        THEN "raise_exception"
    ELSE "ok"

\* insert_telemetry_event, SECURITY DEFINER: validation, then the INSERT as the owner
insert_telemetry_event_error(caller, p_user_id, p_event, p_properties) ==
    IF ~CanExecute(caller, "insert_telemetry_event")
        THEN "insufficient_privilege"
    ELSE IF EventValidationError(p_user_id, p_event, p_properties) # "ok"
        THEN EventValidationError(p_user_id, p_event, p_properties)
    ELSE EventsInsertError(EffectiveUser(caller, TRUE), caller,
                           p_user_id, p_event, p_properties)

(***************************************************************************)
(* The record of the last call.                                            *)
(***************************************************************************)
NoArgs == [none |-> TRUE]
Call(op, role, table, args, err, id, rows, n) ==
    [op |-> op, role |-> role, table |-> table, args |-> args,
     err |-> err, id |-> id, rows |-> rows, n |-> n]

EventArgs(user_id, event, properties) ==
    [user_id |-> user_id, event |-> event, properties |-> properties]

(***************************************************************************)
(* Calls on telemetry_events.                                              *)
(***************************************************************************)
\* rpc('insert_telemetry_event', {p_user_id, p_event, p_properties})
InsertEventFn(role, user_id, event, properties) ==
    LET err == insert_telemetry_event_error(role, user_id, event, properties)
    IN  /\ err = "ok" => nextId <= MaxIds
        /\ IF err = "ok"
             THEN /\ telemetry_events' = telemetry_events \cup
                        {EventRow(nextId, user_id, event, properties)}
                  /\ telemetry_audit_log' = telemetry_audit_log \o
                        TriggerAuditRows("INSERT", "telemetry_events", role, 1)
                  /\ nextId' = nextId + 1
             ELSE UNCHANGED <<telemetry_events, telemetry_audit_log, nextId>>
        /\ last' = Call("insertEvent", role, "telemetry_events",
                        EventArgs(user_id, event, properties), err,
                        IF err = "ok" THEN Some(nextId) ELSE NULL, {}, 0)
        /\ UNCHANGED <<telemetry_workflows, now, req, txn, catalog>>

\* from('telemetry_events').insert([{user_id, event, properties}])
DirectInsertEvent(role, user_id, event, properties) ==
    LET err == EventsInsertError(role, role, user_id, event, properties)
    IN  /\ err = "ok" => nextId <= MaxIds
        /\ IF err = "ok"
             THEN /\ telemetry_events' = telemetry_events \cup
                        {EventRow(nextId, user_id, event, properties)}
                  /\ telemetry_audit_log' = telemetry_audit_log \o
                        TriggerAuditRows("INSERT", "telemetry_events", role, 1)
                  /\ nextId' = nextId + 1
             ELSE UNCHANGED <<telemetry_events, telemetry_audit_log, nextId>>
        /\ last' = Call("directInsertEvent", role, "telemetry_events",
                        EventArgs(user_id, event, properties), err, NULL, {}, 0)
        /\ UNCHANGED <<telemetry_workflows, now, req, txn, catalog>>

(***************************************************************************)
(* telemetry_workflows: columns, constraints, INSERT.                      *)
(***************************************************************************)
\* the values the VARCHAR columns of telemetry_workflows receive
AssignedWorkflow(w) ==
    [w EXCEPT !.user_id = Assigned(@, UserIdMaxLen),
              !.workflow_hash = Assigned(@, HashLen),
              !.complexity = Assigned(@, ComplexityMaxLen)]

\* the column and CHECK constraints of telemetry_workflows on the values of a new row
WorkflowsConstraintError(w) ==
    IF \/ TooLong(w.user_id, UserIdMaxLen)
       \/ TooLong(w.workflow_hash, HashLen)
       \/ TooLong(w.complexity, ComplexityMaxLen)
        THEN "string_data_right_truncation"
    ELSE IF \/ IsNull(w.user_id) \/ IsNull(w.workflow_hash) \/ IsNull(w.node_count)
            \/ IsNull(w.node_types) \/ IsNull(w.has_trigger) \/ IsNull(w.has_webhook)
            \/ IsNull(w.complexity) \/ IsNull(w.sanitized_workflow)
        THEN "not_null_violation"
    ELSE IF ~CheckHolds(Ge3(length(w.user_id), UserIdMinLen))
        THEN "check_violation"
    ELSE IF ~CheckHolds(Eq3(length(w.workflow_hash), HashLen))
        THEN "check_violation"
    ELSE IF ~CheckHolds(Gt3(w.node_count, 0))
        THEN "check_violation"
    ELSE IF ~CheckHolds(Gt3(array_length(w.node_types), 0))
        THEN "check_violation"
    ELSE IF ~CheckHolds(In3(w.complexity, ComplexityEnum))
        THEN "check_violation"
    ELSE IF ~CheckHolds(Eq3(jsonb_typeof(w.sanitized_workflow), "object"))
        THEN "check_violation"
    ELSE "ok"

\* variant: the table has no unique constraint on the pair
ConflictsNever(w, rows) == FALSE

\* telemetry_workflows_unique_hash_user UNIQUE (workflow_hash, user_id)
Conflicts(w, rows) ==
    \E r \in rows :
        /\ r.workflow_hash = Val(Assigned(w.workflow_hash, HashLen))
        /\ r.user_id = Val(Assigned(w.user_id, UserIdMaxLen))

\* the column sets that carry a unique index: the primary key and the unique constraint
WorkflowsUniqueIndexes == {{"id"}, {"workflow_hash", "user_id"}}

\* INSERT INTO telemetry_workflows: what is checked before the row is placed:
\* privilege, the column types, row level security, the constraints
WorkflowsPreInsertError(user, w) ==
    IF ~HasPrivilege(user, "telemetry_workflows", "INSERT")
        THEN "insufficient_privilege"
    ELSE IF \/ TooLong(w.user_id, UserIdMaxLen)
            \/ TooLong(w.workflow_hash, HashLen)
            \/ TooLong(w.complexity, ComplexityMaxLen)
        THEN "string_data_right_truncation"
    ELSE IF ~PolicyPermits(user, "telemetry_workflows", "INSERT")
        THEN "insufficient_privilege"
    ELSE WorkflowsConstraintError(AssignedWorkflow(w))

\* INSERT INTO telemetry_workflows (...) VALUES (...) [ON CONFLICT (workflow_hash,
\* user_id) DO NOTHING], run by `user` under the role setting `role`.  The
\* result "conflict" is the DO NOTHING case: no row, no trigger, no error.
WorkflowsInsertError(user, role, w, onConflictDoNothing) ==
    IF WorkflowsPreInsertError(user, w) # "ok"
        THEN WorkflowsPreInsertError(user, w)
    ELSE IF Conflicts(w, telemetry_workflows)
        THEN IF onConflictDoNothing THEN "conflict" ELSE "unique_violation"
    ELSE audit_telemetry_changes("INSERT", "telemetry_workflows", user, role, 1)

WorkflowRow(id, w) ==
    [id |-> id, user_id |-> Val(Assigned(w.user_id, UserIdMaxLen)),
     workflow_hash |-> Val(Assigned(w.workflow_hash, HashLen)),
     node_count |-> Val(w.node_count), node_types |-> Val(w.node_types),
     has_trigger |-> Val(w.has_trigger), has_webhook |-> Val(w.has_webhook),
     complexity |-> Val(Assigned(w.complexity, ComplexityMaxLen)),
     sanitized_workflow |-> Val(w.sanitized_workflow), created_at |-> now]

\* insert_telemetry_workflow(...): the error of the validation block
WorkflowValidationError(w) ==
    IF IfTaken(Lt3(length(w.user_id), UserIdMinLen))
        THEN "raise_exception"
    ELSE IF IfTaken(Ne3(length(w.workflow_hash), HashLen))
        THEN "raise_exception"
    ELSE IF IfTaken(Le3(w.node_count, 0))
        THEN "raise_exception"
    ELSE IF IfTaken(Eq3(array_length(w.node_types), 0))
        THEN "raise_exception"
    ELSE IF IfTaken(Not3(In3(w.complexity, ComplexityEnum)))
        THEN "raise_exception"
    ELSE IF IfTaken(Ne3(jsonb_typeof(w.sanitized_workflow), "object"))
        THEN "raise_exception"
    ELSE "ok"

\* insert_telemetry_workflow, SECURITY DEFINER: validation, then
\* INSERT ... ON CONFLICT (workflow_hash, user_id) DO NOTHING RETURNING id
insert_telemetry_workflow_error(caller, w) ==
    IF ~CanExecute(caller, "insert_telemetry_workflow")
        THEN "insufficient_privilege"
    ELSE IF WorkflowValidationError(w) # "ok"
        THEN WorkflowValidationError(w)
    ELSE WorkflowsInsertError(EffectiveUser(caller, TRUE), caller, w, TRUE)

\* upsert(..., {onConflict, ignoreDuplicates: true}) is INSERT ... ON CONFLICT
\* (onConflict) DO NOTHING: the conflict target must name a unique index
upsert_error(role, w, onConflict) ==
    IF onConflict \notin WorkflowsUniqueIndexes
        THEN "invalid_column_reference"
    ELSE WorkflowsInsertError(role, role, w, TRUE)

(***************************************************************************)
(* Calls on telemetry_workflows.                                           *)
(***************************************************************************)
\* the effect of an INSERT into telemetry_workflows that ended with `err`
WorkflowsInsertEffect(err, role, w) ==
    /\ err = "ok" => nextId <= MaxIds
    /\ IF err = "ok"
         THEN /\ telemetry_workflows' = telemetry_workflows \cup
                    {WorkflowRow(nextId, w)}
              /\ telemetry_audit_log' = telemetry_audit_log \o
                    TriggerAuditRows("INSERT", "telemetry_workflows", role, 1)
              /\ nextId' = nextId + 1
         ELSE UNCHANGED <<telemetry_workflows, telemetry_audit_log, nextId>>
    /\ UNCHANGED <<telemetry_events, now, req, txn, catalog>>

\* what the caller gets back: "conflict" is a success that returns no identifier
Returned(err) == IF err = "conflict" THEN "ok" ELSE err

\* rpc('insert_telemetry_workflow', {...})
InsertWorkflowFn(role, w) ==
    LET err == insert_telemetry_workflow_error(role, w)
    IN  /\ WorkflowsInsertEffect(err, role, w)
        /\ last' = Call("insertWorkflow", role, "telemetry_workflows", w,
                        Returned(err),
                        IF err = "ok" THEN Some(nextId) ELSE NULL, {}, 0)

\* from('telemetry_workflows').insert([{...}])
DirectInsertWorkflow(role, w) ==
    LET err == WorkflowsInsertError(role, role, w, FALSE)
    IN  /\ WorkflowsInsertEffect(err, role, w)
        /\ last' = Call("directInsertWorkflow", role, "telemetry_workflows", w,
                        err, NULL, {}, 0)

\* from('telemetry_workflows').upsert([{...}], {onConflict: 'workflow_hash',
\* ignoreDuplicates: true})
UpsertWorkflow(role, w) ==
    LET err == upsert_error(role, w, {"workflow_hash"})
    IN  /\ WorkflowsInsertEffect(err, role, w)
        /\ last' = Call("upsertWorkflow", role, "telemetry_workflows", w,
                        Returned(err), NULL, {}, 0)

(***************************************************************************)
(* Direct reads and mutations of the two telemetry tables.                 *)
(***************************************************************************)
TableRows(table) ==
    IF table = "telemetry_events" THEN telemetry_events ELSE telemetry_workflows

\* eq('user_id', userId), applied when the filter is given
Matches(r, filter) == IsNull(filter) \/ r.user_id = Val(filter)

\* from(table).select('*')[.eq('user_id', userId)]
SelectError(role, table) ==
    IF ~HasPrivilege(role, table, "SELECT") THEN "insufficient_privilege" ELSE "ok"

SelectResult(role, table, filter) ==
    IF SelectError(role, table) # "ok" THEN {}
    ELSE {r \in VisibleRows(role, table, "SELECT", TableRows(table)) :
             Matches(r, filter)}

SelectRows(role, table, filter) ==
    /\ last' = Call("select", role, table, [filter |-> filter],
                    SelectError(role, table), NULL,
                    SelectResult(role, table, filter), 0)
    /\ UNCHANGED <<stores, nextId, now, req, txn, catalog>>

\* the rows an UPDATE or DELETE with this filter acts on
TargetRows(role, table, cmd, filter) ==
    {r \in VisibleRows(role, table, cmd, TableRows(table)) : Matches(r, filter)}

\* from(table).delete().eq('user_id', userId): privilege, then the AFTER ROW
\* audit trigger once per deleted row
DeleteError(role, table, filter) ==
    IF ~HasPrivilege(role, table, "DELETE") THEN "insufficient_privilege"
    ELSE audit_telemetry_changes("DELETE", table, role, role,
             Cardinality(TargetRows(role, table, "DELETE", filter)))

\* variant: the rows are deleted before, and apart from, the audit write
DeleteRowsThenAudit(role, table, filter) ==
    LET err == DeleteError(role, table, filter)
        gone == TargetRows(role, table, "DELETE", filter)
    IN  /\ IF err # "insufficient_privilege"
             THEN /\ telemetry_events' =
                        IF table = "telemetry_events"
                            THEN telemetry_events \ gone ELSE telemetry_events
                  /\ telemetry_workflows' =
                        IF table = "telemetry_workflows"
                            THEN telemetry_workflows \ gone ELSE telemetry_workflows
                  /\ telemetry_audit_log' =
                        IF err = "ok"
                            THEN telemetry_audit_log \o
                                 TriggerAuditRows("DELETE", table, role, Cardinality(gone))
                            ELSE telemetry_audit_log
             ELSE UNCHANGED stores
        /\ last' = Call("delete", role, table, [filter |-> filter], err, NULL, {},
                        IF err = "ok" THEN Cardinality(gone) ELSE 0)
        /\ UNCHANGED <<nextId, now, req, txn, catalog>>

DeleteRows(role, table, filter) ==
    LET err == DeleteError(role, table, filter)
        gone == TargetRows(role, table, "DELETE", filter)
    IN  /\ IF err = "ok"
             THEN /\ telemetry_events' =
                        IF table = "telemetry_events"
                            THEN telemetry_events \ gone ELSE telemetry_events
                  /\ telemetry_workflows' =
                        IF table = "telemetry_workflows"
                            THEN telemetry_workflows \ gone ELSE telemetry_workflows
                  /\ telemetry_audit_log' = telemetry_audit_log \o
                        TriggerAuditRows("DELETE", table, role, Cardinality(gone))
             ELSE UNCHANGED stores
        /\ last' = Call("delete", role, table, [filter |-> filter], err, NULL, {},
                        IF err = "ok" THEN Cardinality(gone) ELSE 0)
        /\ UNCHANGED <<nextId, now, req, txn, catalog>>

\* the column an UPDATE of the table sets: event, or complexity
Updated(table, r, v) ==
    IF table = "telemetry_events"
        THEN [r EXCEPT !.event = Val(Assigned(v, EventMaxLen))]
        ELSE [r EXCEPT !.complexity = Val(Assigned(v, ComplexityMaxLen))]

\* the constraints on the new value of that column
UpdateConstraintError(table, v) ==
    IF table = "telemetry_events"
        THEN IF TooLong(v, EventMaxLen) THEN "string_data_right_truncation"
             ELSE IF IsNull(v) THEN "not_null_violation"
             ELSE IF ~CheckHolds(And3(Ge3(length(Assigned(v, EventMaxLen)), EventMinLen),
                                      Le3(length(Assigned(v, EventMaxLen)), EventMaxLen)))
                 THEN "check_violation"
             ELSE "ok"
        ELSE IF TooLong(v, ComplexityMaxLen) THEN "string_data_right_truncation"
             ELSE IF IsNull(v) THEN "not_null_violation"
             ELSE IF ~CheckHolds(In3(Assigned(v, ComplexityMaxLen), ComplexityEnum))
                 THEN "check_violation"
             ELSE "ok"

\* from(table).update({column: v}).eq('user_id', userId)
UpdateError(role, table, filter, v) ==
    IF ~HasPrivilege(role, table, "UPDATE") THEN "insufficient_privilege"
    ELSE IF TargetRows(role, table, "UPDATE", filter) = {} THEN "ok"
    ELSE IF UpdateConstraintError(table, v) # "ok"
        THEN UpdateConstraintError(table, v)
    ELSE audit_telemetry_changes("UPDATE", table, role, role,
             Cardinality(TargetRows(role, table, "UPDATE", filter)))

UpdateRows(role, table, filter, v) ==
    LET err == UpdateError(role, table, filter, v)
        hit == TargetRows(role, table, "UPDATE", filter)
        new == {Updated(table, r, v) : r \in hit}
    IN  /\ IF err = "ok" /\ hit # {}
             THEN /\ telemetry_events' =
                        IF table = "telemetry_events"
                            THEN (telemetry_events \ hit) \cup new
                            ELSE telemetry_events
                  /\ telemetry_workflows' =
                        IF table = "telemetry_workflows"
                            THEN (telemetry_workflows \ hit) \cup new
                            ELSE telemetry_workflows
                  /\ telemetry_audit_log' = telemetry_audit_log \o
                        TriggerAuditRows("UPDATE", table, role, Cardinality(hit))
             ELSE UNCHANGED stores
        /\ last' = Call("update", role, table, [filter |-> filter, v |-> v],
                        err, NULL, {}, IF err = "ok" THEN Cardinality(hit) ELSE 0)
        /\ UNCHANGED <<nextId, now, req, txn, catalog>>

(***************************************************************************)
(* Time.  The unit is a day.                                               *)
(***************************************************************************)
TwoYears == 730       \* INTERVAL '2 years'
ThirtyDays == 30      \* INTERVAL '30 days'
NinetyDays == 90      \* INTERVAL '90 days'

\* the instants at which the clock is read: around the start and around the horizon
ClockInstants == (0 .. MaxTick) \cup {TwoYears + k : k \in 0 .. MaxTick + 1}

Tick ==
    /\ \E t \in ClockInstants : t > now /\ now' = t
    /\ last' = Call("tick", "none", "none", NoArgs, "ok", NULL, {}, 0)
    /\ UNCHANGED <<stores, nextId, req, txn, catalog>>

(***************************************************************************)
(* get_telemetry_stats and the three views.                                *)
(***************************************************************************)
Between(t, lo, hi) == lo <= t /\ t <= hi
UserIds(rows) == {r.user_id : r \in rows}

\* variant: the counts for today are taken over the rows of the window
get_telemetry_stats_today_in_window(start_date, end_date) ==
    LET ev == {r \in telemetry_events : Between(r.created_at, start_date, end_date)}
        wf == {r \in telemetry_workflows : Between(r.created_at, start_date, end_date)}
    IN  {[metric |-> "total_events", value |-> Cardinality(ev)],
         [metric |-> "total_workflows", value |-> Cardinality(wf)],
         [metric |-> "unique_users",
          value |-> Cardinality(UserIds(ev) \cup UserIds(wf))],
         [metric |-> "events_today",
          value |-> Cardinality({r \in ev : r.created_at = now})],
         [metric |-> "workflows_today",
          value |-> Cardinality({r \in wf : r.created_at = now})]}
\* variant: the users of the two tables are counted apart and added up
get_telemetry_stats_summing(start_date, end_date) ==
    LET ev == {r \in telemetry_events : Between(r.created_at, start_date, end_date)}
        wf == {r \in telemetry_workflows : Between(r.created_at, start_date, end_date)}
    IN  {[metric |-> "total_events", value |-> Cardinality(ev)],
         [metric |-> "total_workflows", value |-> Cardinality(wf)],
         [metric |-> "unique_users",
          value |-> Cardinality(UserIds(ev)) + Cardinality(UserIds(wf))],
         [metric |-> "events_today",
          value |-> Cardinality({r \in telemetry_events : r.created_at = now})],
         [metric |-> "workflows_today",
          value |-> Cardinality({r \in telemetry_workflows : r.created_at = now})]}
\* get_telemetry_stats(start_date, end_date), SECURITY DEFINER: five rows (metric, value)
get_telemetry_stats(start_date, end_date) ==
    LET ev == {r \in telemetry_events : Between(r.created_at, start_date, end_date)}
        wf == {r \in telemetry_workflows : Between(r.created_at, start_date, end_date)}
    IN  {[metric |-> "total_events", value |-> Cardinality(ev)],
         [metric |-> "total_workflows", value |-> Cardinality(wf)],
         [metric |-> "unique_users",
          value |-> Cardinality(UserIds(ev) \cup UserIds(wf))],
         [metric |-> "events_today",
          value |-> Cardinality({r \in telemetry_events : r.created_at = now})],
         [metric |-> "workflows_today",
          value |-> Cardinality({r \in telemetry_workflows : r.created_at = now})]}

GetStatsError(caller) ==
    IF ~CanExecute(caller, "get_telemetry_stats")
        THEN "insufficient_privilege"
        ELSE "ok"

\* rpc('get_telemetry_stats', {start_date, end_date})
GetStats(role, start_date, end_date) ==
    /\ last' = Call("getStats", role, "none",
                    [start_date |-> start_date, end_date |-> end_date],
                    GetStatsError(role), NULL,
                    IF GetStatsError(role) = "ok"
                        THEN get_telemetry_stats(start_date, end_date) ELSE {},
                    0)
    /\ UNCHANGED <<stores, nextId, now, req, txn, catalog>>

RECURSIVE SumOf(_, _)
\* the sum of f over the rows of a set; f is a field name
SumOf(rows, f) ==
    IF rows = {} THEN 0
    ELSE LET r == CHOOSE x \in rows : TRUE
         IN  r[f] + SumOf(rows \ {r}, f)
Min(S) == CHOOSE x \in S : \A y \in S : x <= y
Max(S) == CHOOSE x \in S : \A y \in S : x >= y

Views == {"telemetry_event_stats", "telemetry_workflow_stats",
          "telemetry_daily_activity"}

\* CREATE VIEW telemetry_event_stats: one row per event type
telemetry_event_stats ==
    {LET g == {r \in telemetry_events : r.event = e}
     IN  [event |-> e, total_events |-> Cardinality(g),
          unique_users |-> Cardinality(UserIds(g)),
          first_seen |-> Min({r.created_at : r \in g}),
          last_seen |-> Max({r.created_at : r \in g})]
     : e \in {r.event : r \in telemetry_events}}

\* CREATE VIEW telemetry_workflow_stats: one row per complexity
telemetry_workflow_stats ==
    {LET g == {r \in telemetry_workflows : r.complexity = c}
     IN  [complexity |-> c, total_workflows |-> Cardinality(g),
          unique_users |-> Cardinality(UserIds(g)),
          sum_nodes |-> SumOf(g, "node_count"),
          min_nodes |-> Min({r.node_count : r \in g}),
          max_nodes |-> Max({r.node_count : r \in g}),
          with_triggers |-> Cardinality({r \in g : r.has_trigger}),
          with_webhooks |-> Cardinality({r \in g : r.has_webhook})]
     : c \in {r.complexity : r \in telemetry_workflows}}

\* CREATE VIEW telemetry_daily_activity: one row per day of the last 90 days
telemetry_daily_activity ==
    LET ev == {r \in telemetry_events : r.created_at >= now - NinetyDays}
        wf == {r \in telemetry_workflows : r.created_at >= now - NinetyDays}
    IN  {[date |-> d,
          events |-> Cardinality({r \in ev : r.created_at = d}),
          workflows |-> Cardinality({r \in wf : r.created_at = d}),
          active_users |-> Cardinality(UserIds({r \in ev : r.created_at = d})
                               \cup UserIds({r \in wf : r.created_at = d}))]
         : d \in {r.created_at : r \in ev} \cup {r.created_at : r \in wf}}

ViewRows(view) ==
    CASE view = "telemetry_event_stats" -> telemetry_event_stats
      [] view = "telemetry_workflow_stats" -> telemetry_workflow_stats
      [] view = "telemetry_daily_activity" -> telemetry_daily_activity

\* The privileges on the views are granted apart from the setup script, like
\* those on the tables: the service role reads them, no other role does.
HasViewPrivilege(user, view) == user = Owner \/ user = "service_role"

\* from(view).select('*'): a view reads its tables as its owner
SelectView(role, view) ==
    /\ last' = Call("selectView", role, view, NoArgs,
                    IF HasViewPrivilege(role, view)
                        THEN "ok" ELSE "insufficient_privilege",
                    NULL,
                    IF HasViewPrivilege(role, view) THEN ViewRows(view) ELSE {},
                    0)
    /\ UNCHANGED <<stores, nextId, now, req, txn, catalog>>

(***************************************************************************)
(* cleanup_old_telemetry_data.                                             *)
(***************************************************************************)
\* current_setting('role') of a session: the role set by the API gateway, or
\* none for the owner's own session (the scheduled job)
RoleSetting(caller) == IF caller = Owner THEN "none" ELSE caller

Expired(rows, cutoff_date) == {r \in rows : r.created_at < cutoff_date}

\* the rows the two DELETE statements of the function act on
CleanupEvents(caller) ==
    Expired(VisibleRows(caller, "telemetry_events", "DELETE", telemetry_events),
            now - TwoYears)
CleanupWorkflows(caller) ==
    Expired(VisibleRows(caller, "telemetry_workflows", "DELETE",
                        telemetry_workflows),
            now - TwoYears)

\* variant: the function runs with its owner's rights and no trigger stops it
cleanup_error_as_definer(caller) == AuditInsertError(Owner, Some(IntegerValue(0)))

\* cleanup_old_telemetry_data(), run with the caller's rights as one statement:
\* DELETE old events (audit trigger per row), DELETE old workflows (audit
\* trigger per row), INSERT two audit rows
cleanup_error(caller) ==
    IF ~CanExecute(caller, "cleanup_old_telemetry_data")
        THEN "insufficient_privilege"
    ELSE IF ~HasPrivilege(caller, "telemetry_events", "DELETE")
        THEN "insufficient_privilege"
    ELSE IF audit_telemetry_changes("DELETE", "telemetry_events", caller,
                RoleSetting(caller), Cardinality(CleanupEvents(caller))) # "ok"
        THEN audit_telemetry_changes("DELETE", "telemetry_events", caller,
                RoleSetting(caller), Cardinality(CleanupEvents(caller)))
    ELSE IF ~HasPrivilege(caller, "telemetry_workflows", "DELETE")
        THEN "insufficient_privilege"
    ELSE IF audit_telemetry_changes("DELETE", "telemetry_workflows", caller,
                RoleSetting(caller), Cardinality(CleanupWorkflows(caller))) # "ok"
        THEN audit_telemetry_changes("DELETE", "telemetry_workflows", caller,
                RoleSetting(caller), Cardinality(CleanupWorkflows(caller)))
    ELSE AuditInsertError(caller, Some(IntegerValue(0)))

\* the two audit rows that end the function
CleanupAuditRows(deleted_events, deleted_workflows) ==
    <<AuditRow("DELETE", "telemetry_events", Some(IntegerValue(deleted_events)),
               "system", [cutoff_date |-> now - TwoYears]),
      AuditRow("DELETE", "telemetry_workflows",
               Some(IntegerValue(deleted_workflows)),
               "system", [cutoff_date |-> now - TwoYears])>>

\* variant: the summary rows replace the log instead of being added to it
CleanupRewritingLog(caller) ==
    LET err == cleanup_error(caller)
        ev == CleanupEvents(caller)
        wf == CleanupWorkflows(caller)
    IN  /\ err = "ok" => Len(telemetry_audit_log) + 2
                             + Cardinality(ev) + Cardinality(wf) <= MaxAudit
        /\ IF err = "ok"
             THEN /\ telemetry_events' = telemetry_events \ ev
                  /\ telemetry_workflows' = telemetry_workflows \ wf
                  /\ telemetry_audit_log' =
                        CleanupAuditRows(Cardinality(ev), Cardinality(wf))
             ELSE UNCHANGED stores
        /\ last' = Call("cleanup", caller, "none", NoArgs, err, NULL, {},
                        IF err = "ok" THEN Cardinality(ev) + Cardinality(wf) ELSE 0)
        /\ UNCHANGED <<nextId, now, req, txn, catalog>>

\* SELECT cleanup_old_telemetry_data()
Cleanup(caller) ==
    LET err == cleanup_error(caller)
        ev == CleanupEvents(caller)
        wf == CleanupWorkflows(caller)
    IN  /\ err = "ok" => Len(telemetry_audit_log) + 2
                             + Cardinality(ev) + Cardinality(wf) <= MaxAudit
        /\ IF err = "ok"
             THEN /\ telemetry_events' = telemetry_events \ ev
                  /\ telemetry_workflows' = telemetry_workflows \ wf
                  /\ telemetry_audit_log' = telemetry_audit_log
                        \o TriggerAuditRows("DELETE", "telemetry_events",
                                            RoleSetting(caller), Cardinality(ev))
                        \o TriggerAuditRows("DELETE", "telemetry_workflows",
                                            RoleSetting(caller), Cardinality(wf))
                        \o CleanupAuditRows(Cardinality(ev), Cardinality(wf))
             ELSE UNCHANGED stores
        /\ last' = Call("cleanup", caller, "none", NoArgs, err, NULL, {},
                        IF err = "ok" THEN Cardinality(ev) + Cardinality(wf) ELSE 0)
        /\ UNCHANGED <<nextId, now, req, txn, catalog>>

(***************************************************************************)
(* The values that callers submit.                                         *)
(***************************************************************************)
UserA == Rep("a", UserIdMinLen)        \* the shortest valid user_id
UserB == Rep("b", UserIdMaxLen)        \* the longest valid user_id
HashX == Rep("0", HashLen)
HashY == Rep("f", HashLen)
Object == [type |-> "object"]

UserIdInputs ==
    {Some(UserA), Some(UserB), Some(Rep("c", UserIdMinLen - 1)),
     Some(Rep("c", UserIdMaxLen + 1)), Some(Rep("c", UserIdMaxLen) \o " "),
     Some(""), NULL}
EventInputs ==
    {Some("e"), Some(Rep("e", EventMaxLen)), Some(""),
     Some(Rep("e", EventMaxLen + 1)), Some(Rep("e", EventMaxLen) \o " "), NULL}
JsonInputs ==
    {Some(Object), Some([type |-> "array"]), Some([type |-> "string"]),
     Some([type |-> "null"]), NULL}
HashInputs ==
    {Some(HashX), Some(HashY), Some(Rep("0", HashLen - 1)),
     Some(Rep("0", HashLen + 1)), NULL}
NodeCountInputs == {Some(1), Some(0), Some(-1), NULL}
NodeTypesInputs == {Some(<<"webhook">>), Some(<<"webhook", "http">>), Some(<<>>), NULL}
BooleanInputs == {Some(TRUE), Some(FALSE)}
ComplexityInputs ==
    {Some("simple"), Some("medium"), Some("complex"), Some("huge"), Some(""), NULL}

\* a workflow submission that every check accepts
Workflow(user_id, workflow_hash) ==
    [user_id |-> user_id, workflow_hash |-> workflow_hash,
     node_count |-> Some(1), node_types |-> Some(<<"webhook">>),
     has_trigger |-> Some(TRUE), has_webhook |-> Some(FALSE),
     complexity |-> Some("simple"), sanitized_workflow |-> Some(Object)]

\* The submissions of the main specification: valid ones that differ in their
\* key and in their other fields, and invalid ones.
SpecUserIds == {Some(UserA), Some(UserB), Some(Rep("c", UserIdMinLen - 1))}
SpecEvents == {Some("e"), Some("")}
SpecWorkflows ==
    {Workflow(Some(UserA), Some(HashX)), Workflow(Some(UserB), Some(HashX)),
     [Workflow(Some(UserA), Some(HashX)) EXCEPT !.node_count = Some(2),
                                                 !.complexity = Some("medium")],
     [Workflow(Some(UserA), Some(HashY)) EXCEPT !.node_count = Some(0)]}
SpecFilters == {NULL, Some(UserA)}
IdleTxn == [pc |-> "idle"]

(***************************************************************************)
(* The main specification: one call at a time, by any role.                *)
(***************************************************************************)
\* the database after the setup script: empty tables, no open transaction
InitDatabase ==
    /\ telemetry_events = {}
    /\ telemetry_workflows = {}
    /\ telemetry_audit_log = <<>>
    /\ nextId = 1
    /\ now = 0
    /\ last = Call("none", "none", "none", NoArgs, "ok", NULL, {}, 0)
    /\ txn = [p \in 1 .. NumWriters |-> IdleTxn]
    /\ catalog = [partitioned |-> {}, partitions |-> {}]

Init ==
    /\ InitDatabase
    /\ req = NoArgs

InsertEventCall ==
    \E role \in Roles, u \in SpecUserIds, e \in SpecEvents :
        InsertEventFn(role, u, e, Some(Object))
DirectInsertEventCall ==
    \E role \in Roles, u \in SpecUserIds, e \in SpecEvents :
        DirectInsertEvent(role, u, e, Some(Object))
InsertWorkflowCall ==
    \E role \in Roles, w \in SpecWorkflows : InsertWorkflowFn(role, w)
DirectInsertWorkflowCall ==
    \E role \in Roles, w \in SpecWorkflows : DirectInsertWorkflow(role, w)
UpsertWorkflowCall ==
    \E role \in Roles, w \in SpecWorkflows : UpsertWorkflow(role, w)
SelectCall ==
    \E role \in Roles, t \in Tables, f \in SpecFilters : SelectRows(role, t, f)
UpdateCall ==
    \E role \in Roles, f \in SpecFilters :
        \/ \E v \in SpecEvents : UpdateRows(role, "telemetry_events", f, v)
        \/ \E v \in {Some("complex"), Some("huge")} :
              UpdateRows(role, "telemetry_workflows", f, v)
DeleteCall ==
    \E role \in Roles, t \in Tables, f \in SpecFilters : DeleteRows(role, t, f)
GetStatsCall ==
    \E role \in Roles : GetStats(role, now - ThirtyDays, now)
SelectViewCall ==
    \E role \in Roles, v \in Views : SelectView(role, v)
CleanupCall ==
    \E caller \in Roles \cup {Owner} : Cleanup(caller)

Next ==
    \/ InsertEventCall
    \/ DirectInsertEventCall
    \/ InsertWorkflowCall
    \/ DirectInsertWorkflowCall
    \/ UpsertWorkflowCall
    \/ SelectCall
    \/ UpdateCall
    \/ DeleteCall
    \/ GetStatsCall
    \/ SelectViewCall
    \/ CleanupCall

Spec == Init /\ [][Next]_vars

(***************************************************************************)
(* Workflow submissions over time: the three insert paths, retention, the  *)
(* clock.                                                                  *)
(***************************************************************************)
DedupWorkflows ==
    {Workflow(Some(UserA), Some(HashX)), Workflow(Some(UserB), Some(HashX)),
     Workflow(Some(UserA), Some(HashY)),
     [Workflow(Some(UserA), Some(HashX)) EXCEPT !.node_count = Some(2),
                                                 !.complexity = Some("medium")]}

DedupInsertCall ==
    \E role \in Roles, w \in DedupWorkflows : InsertWorkflowFn(role, w)
DedupDirectInsertCall ==
    \E role \in Roles, w \in DedupWorkflows : DirectInsertWorkflow(role, w)
DedupUpsertCall ==
    \E role \in Roles, w \in DedupWorkflows : UpsertWorkflow(role, w)
DedupCleanupCall ==
    \E caller \in {"service_role", Owner} : Cleanup(caller)

NextDedup ==
    \/ DedupInsertCall
    \/ DedupDirectInsertCall
    \/ DedupUpsertCall
    \/ DedupCleanupCall
    \/ Tick

SpecDedup == Init /\ [][NextDedup]_vars

(***************************************************************************)
(* Concurrent writers of telemetry_workflows.  Each writer runs             *)
(* insert_telemetry_workflow in a transaction of its own: the function     *)
(* validates, INSERT ... ON CONFLICT DO NOTHING looks for a conflicting    *)
(* row, places its row in the unique index, the audit trigger runs and the *)
(* transaction commits.  A row placed and not yet committed is seen by no  *)
(* reader, and holds its key in the unique index.                          *)
(***************************************************************************)
Writers == 1 .. NumWriters
RaceWorkflows ==
    {Workflow(Some(UserA), Some(HashX)), Workflow(Some(UserB), Some(HashX)),
     [Workflow(Some(UserA), Some(HashX)) EXCEPT !.node_count = Some(2),
                                                 !.complexity = Some("medium")]}

\* the rows placed by open transactions other than p's
InFlight(p) == {txn[q].row : q \in {q \in Writers \ {p} : txn[q].pc = "placed"}}

\* rpc('insert_telemetry_workflow', w): the validation block and the checks that
\* come before the row is placed
Submit(p, role, w) ==
    LET err == IF ~CanExecute(role, "insert_telemetry_workflow")
                   THEN "insufficient_privilege"
               ELSE IF WorkflowValidationError(w) # "ok"
                   THEN WorkflowValidationError(w)
               ELSE WorkflowsPreInsertError(EffectiveUser(role, TRUE), w)
    IN  /\ txn[p].pc = "idle"
        /\ txn' = [txn EXCEPT ![p] =
                      IF err = "ok"
                          THEN [pc |-> "check", role |-> role, w |-> w]
                          ELSE [pc |-> "done", role |-> role, w |-> w,
                                err |-> err, id |-> NULL]]
        /\ UNCHANGED <<stores, nextId, now, last, req, catalog>>

\* ON CONFLICT (workflow_hash, user_id): a committed row with the key ends the
\* statement with no row; a row of an open transaction with the key makes the
\* statement wait for that transaction
CheckConflict(p) ==
    /\ txn[p].pc = "check"
    /\ ~Conflicts(txn[p].w, InFlight(p))
    /\ txn' = [txn EXCEPT ![p] =
                  IF Conflicts(txn[p].w, telemetry_workflows)
                      THEN [pc |-> "done", role |-> txn[p].role, w |-> txn[p].w,
                            err |-> "ok", id |-> NULL]
                      ELSE [txn[p] EXCEPT !.pc = "place"]]
    /\ UNCHANGED <<stores, nextId, now, last, req, catalog>>

\* the row goes into the unique index: a key that has appeared since the check
\* sends the statement back to the check
PlaceRow(p) ==
    /\ txn[p].pc = "place"
    /\ nextId <= MaxIds
    /\ IF Conflicts(txn[p].w, telemetry_workflows \cup InFlight(p))
         THEN /\ txn' = [txn EXCEPT ![p].pc = "check"]
              /\ UNCHANGED nextId
         ELSE /\ txn' = [txn EXCEPT ![p] =
                            [pc |-> "placed", role |-> txn[p].role, w |-> txn[p].w,
                             row |-> WorkflowRow(nextId, txn[p].w)]]
              /\ nextId' = nextId + 1
    /\ UNCHANGED <<stores, now, last, req, catalog>>

\* the AFTER ROW trigger, RETURNING id INTO workflow_id, and the commit
Finish(p) ==
    LET role == txn[p].role
        err == audit_telemetry_changes("INSERT", "telemetry_workflows",
                                       EffectiveUser(role, TRUE), role, 1)
    IN  /\ txn[p].pc = "placed"
        /\ IF err = "ok"
             THEN /\ telemetry_workflows' = telemetry_workflows \cup {txn[p].row}
                  /\ telemetry_audit_log' = telemetry_audit_log \o
                        TriggerAuditRows("INSERT", "telemetry_workflows", role, 1)
             ELSE UNCHANGED <<telemetry_workflows, telemetry_audit_log>>
        /\ txn' = [txn EXCEPT ![p] =
                      [pc |-> "done", role |-> role, w |-> txn[p].w, err |-> err,
                       id |-> IF err = "ok" THEN Some(txn[p].row.id) ELSE NULL]]
        /\ UNCHANGED <<telemetry_events, nextId, now, last, req, catalog>>

SubmitStep ==
    \E p \in Writers, role \in {"anon", "service_role"}, w \in RaceWorkflows :
        Submit(p, role, w)
CheckConflictStep == \E p \in Writers : CheckConflict(p)
PlaceRowStep == \E p \in Writers : PlaceRow(p)
FinishStep == \E p \in Writers : Finish(p)

NextRace ==
    \/ SubmitStep
    \/ CheckConflictStep
    \/ PlaceRowStep
    \/ FinishStep

SpecRace == Init /\ [][NextRace]_vars

(***************************************************************************)
(* Validation runs: one submission, drawn from the product of the field    *)
(* values, is made again and again by one role through one insert path,    *)
(* between valid submissions of an anonymous client.                       *)
(***************************************************************************)
ValidationUserIds ==
    {Some(UserA), Some(Rep("c", UserIdMinLen - 1)),
     Some(Rep("c", UserIdMaxLen + 1)), Some(Rep("c", UserIdMaxLen) \o " "),
     Some(""), NULL}
ValidationWorkflows ==
    [user_id : ValidationUserIds,
     workflow_hash : {Some(HashX), Some(Rep("0", HashLen - 1)),
                      Some(Rep("0", HashLen + 1)), Some(HashX \o " ")},
     node_count : {Some(1), Some(0), Some(-1)},
     node_types : {Some(<<"webhook">>), Some(<<>>), NULL},
     has_trigger : {Some(TRUE)},
     has_webhook : {Some(FALSE)},
     complexity : {Some("complex"), Some("huge"), NULL},
     sanitized_workflow : {Some(Object), Some([type |-> "array"]), NULL}]

ValidationRequests ==
    {[op |-> op, role |-> role, args |-> EventArgs(u, e, j)] :
        op \in {"insertEvent", "directInsertEvent"}, role \in Roles,
        u \in UserIdInputs, e \in EventInputs, j \in JsonInputs}
    \cup
    {[op |-> op, role |-> role, args |-> w] :
        op \in {"insertWorkflow", "directInsertWorkflow"}, role \in Roles,
        w \in ValidationWorkflows}

InitValidation ==
    /\ InitDatabase
    /\ req \in ValidationRequests

\* the submission under test is made
ApplyRequest ==
    CASE req.op = "insertEvent" ->
            InsertEventFn(req.role, req.args.user_id, req.args.event,
                          req.args.properties)
      [] req.op = "directInsertEvent" ->
            DirectInsertEvent(req.role, req.args.user_id, req.args.event,
                              req.args.properties)
      [] req.op = "insertWorkflow" -> InsertWorkflowFn(req.role, req.args)
      [] req.op = "directInsertWorkflow" -> DirectInsertWorkflow(req.role, req.args)

\* a valid submission of an anonymous client
OtherEvent == InsertEventFn("anon", Some(UserB), Some("e"), Some(Object))
OtherWorkflow == InsertWorkflowFn("anon", Workflow(Some(UserB), Some(HashX)))

NextValidation ==
    \/ ApplyRequest
    \/ OtherEvent
    \/ OtherWorkflow

SpecValidation == InitValidation /\ [][NextValidation]_vars

(***************************************************************************)
(* Retention: anonymous clients submit events and workflows, the clock     *)
(* moves past the two year horizon, cleanup_old_telemetry_data runs.       *)
(***************************************************************************)
RetentionInsertEvent ==
    \E u \in {Some(UserA), Some(UserB)} :
        InsertEventFn("anon", u, Some("e"), Some(Object))
RetentionInsertWorkflow ==
    \E u \in {Some(UserA), Some(UserB)} :
        InsertWorkflowFn("anon", Workflow(u, Some(HashX)))
\* the scheduled job runs as the owner; the API roles can call the function too
RetentionCleanup ==
    \E caller \in {Owner, "service_role", "anon"} : Cleanup(caller)

NextRetention ==
    \/ RetentionInsertEvent
    \/ RetentionInsertWorkflow
    \/ RetentionCleanup
    \/ Tick

SpecRetention == Init /\ [][NextRetention]_vars

(***************************************************************************)
(* Statistics: anonymous clients submit, the clock moves, the service role *)
(* asks for the statistics of a window.                                    *)
(***************************************************************************)
StatsCall ==
    \E start_date \in {now - ThirtyDays, 0, TwoYears} :
        GetStats("service_role", start_date, now)

NextStats ==
    \/ RetentionInsertEvent
    \/ RetentionInsertWorkflow
    \/ Tick
    \/ StatsCall

SpecStats == Init /\ [][NextStats]_vars

(***************************************************************************)
(* create_telemetry_partition.  A DATE is a record of year, month and day. *)
(***************************************************************************)
Date(y, m, d) == [year |-> y, month |-> m, day |-> d]
IsLeapYear(y) == (y % 4 = 0 /\ y % 100 # 0) \/ y % 400 = 0
DaysInMonth(y, m) ==
    IF m = 2 THEN (IF IsLeapYear(y) THEN 29 ELSE 28)
    ELSE IF m \in {4, 6, 9, 11} THEN 30
    ELSE 31

\* the order of dates
DateOrd(d) == d.year * 10000 + d.month * 100 + d.day

\* end_date := start_date + INTERVAL '1 month': the same day of the next month,
\* or that month's last day when it is shorter
AddOneMonth(d) ==
    LET y == IF d.month = 12 THEN d.year + 1 ELSE d.year
        m == IF d.month = 12 THEN 1 ELSE d.month + 1
    IN  Date(y, m, IF d.day > DaysInMonth(y, m) THEN DaysInMonth(y, m) ELSE d.day)

Digit(n) ==
    CASE n = 0 -> "0" [] n = 1 -> "1" [] n = 2 -> "2" [] n = 3 -> "3"
      [] n = 4 -> "4" [] n = 5 -> "5" [] n = 6 -> "6" [] n = 7 -> "7"
      [] n = 8 -> "8" [] n = 9 -> "9"

RECURSIVE Digits(_, _)
\* n in decimal, zero-padded to the width
Digits(n, width) ==
    IF width = 0 THEN "" ELSE Digits(n \div 10, width - 1) \o Digit(n % 10)

\* to_char(start_date, 'YYYY_MM')
to_char(d) == Digits(d.year, 4) \o "_" \o Digits(d.month, 2)

\* partition_name := table_name || '_' || to_char(start_date, 'YYYY_MM')
PartitionName(table_name, start_date) == table_name \o "_" \o to_char(start_date)

\* the relations of the schema: the three tables, the views, the partitions
Relations ==
    Tables \cup {"telemetry_audit_log"} \cup Views
        \cup {q.name : q \in catalog.partitions}

\* the bounds [from, to) meet those of an existing partition of the parent
Overlaps(parent, from, to) ==
    \E q \in catalog.partitions :
        /\ q.parent = parent
        /\ DateOrd(from) < DateOrd(q.to)
        /\ DateOrd(q.from) < DateOrd(to)

\* CREATE TABLE name PARTITION OF parent FOR VALUES FROM (from) TO (to), once
\* IF NOT EXISTS has found no relation of that name
PartitionOfError(user, name, parent, from, to) ==
    IF user # Owner THEN "insufficient_privilege"
    ELSE IF parent \notin catalog.partitioned THEN "wrong_object_type"
    ELSE IF name \in Relations THEN "duplicate_table"
    ELSE IF Overlaps(parent, from, to) THEN "invalid_object_definition"
    ELSE "ok"

Partition(name, parent, from, to) ==
    [name |-> name, parent |-> parent, from |-> from, to |-> to]

\* variant: the function has a branch for every table name
PartitionSkippedByNameOnly(table_name, start_date) ==
    PartitionName(table_name, start_date) \in Relations
\* IF NOT EXISTS skips the statement, or the function has no branch for the table
PartitionSkipped(table_name, start_date) ==
    \/ table_name \notin Tables
    \/ PartitionName(table_name, start_date) \in Relations

\* create_telemetry_partition(table_name, start_date), run with the caller's rights
create_telemetry_partition_error(caller, table_name, start_date) ==
    IF PartitionSkipped(table_name, start_date) THEN "ok"
    ELSE PartitionOfError(caller, PartitionName(table_name, start_date),
                          table_name, start_date, AddOneMonth(start_date))

\* the catalog once the statement has ended with `err`
CatalogAfter(err, table_name, start_date) ==
    IF err = "ok" /\ ~PartitionSkipped(table_name, start_date)
        THEN [catalog EXCEPT !.partitions = @ \cup
                 {Partition(PartitionName(table_name, start_date), table_name,
                            start_date, AddOneMonth(start_date))}]
        ELSE catalog

\* SELECT create_telemetry_partition(table_name, start_date)
CreatePartition(caller, table_name, start_date) ==
    LET err == create_telemetry_partition_error(caller, table_name, start_date)
    IN  /\ catalog' = CatalogAfter(err, table_name, start_date)
        /\ last' = Call("createPartition", caller, table_name,
                        [start_date |-> start_date], err, NULL, {}, 0)
        /\ UNCHANGED <<stores, nextId, now, req, txn>>

\* a concurrent caller: the IF NOT EXISTS look-up comes first ...
PartitionSubmit(p, caller, table_name, start_date) ==
    /\ txn[p].pc = "idle"
    /\ txn' = [txn EXCEPT ![p] =
                 [pc |-> IF PartitionSkipped(table_name, start_date)
                             THEN "done" ELSE "create",
                  role |-> caller, table |-> table_name,
                  start_date |-> start_date, err |-> "ok"]]
    /\ UNCHANGED <<stores, nextId, now, last, req, catalog>>

\* ... then the relation is created under the lock on the parent, which the
\* creators hold one after the other until they commit
PartitionCreate(p) ==
    /\ txn[p].pc = "create"
    /\ LET err == PartitionOfError(txn[p].role,
                      PartitionName(txn[p].table, txn[p].start_date),
                      txn[p].table, txn[p].start_date,
                      AddOneMonth(txn[p].start_date))
       IN  /\ catalog' =
                 IF err = "ok"
                     THEN [catalog EXCEPT !.partitions = @ \cup
                             {Partition(PartitionName(txn[p].table, txn[p].start_date),
                                        txn[p].table, txn[p].start_date,
                                        AddOneMonth(txn[p].start_date))}]
                     ELSE catalog
           /\ txn' = [txn EXCEPT ![p].pc = "done", ![p].err = err]
    /\ UNCHANGED <<stores, nextId, now, last, req>>

PartitionDates == {Date(2025, 1, 1), Date(2025, 1, 31), Date(2025, 2, 1)}
PartitionTables == Tables \cup {"telemetry_audit_log", "telemetry_sessions"}
PartitionCallers == {Owner, "service_role"}

\* the tables as the setup script creates them are not partitioned; an operator
\* may have converted them by hand
InitPartition ==
    /\ telemetry_events = {}
    /\ telemetry_workflows = {}
    /\ telemetry_audit_log = <<>>
    /\ nextId = 1
    /\ now = 0
    /\ last = Call("none", "none", "none", NoArgs, "ok", NULL, {}, 0)
    /\ txn = [p \in 1 .. NumWriters |-> IdleTxn]
    /\ req = NoArgs
    /\ \E P \in {{}, Tables} : catalog = [partitioned |-> P, partitions |-> {}]

CreatePartitionCall ==
    \E c \in PartitionCallers, t \in PartitionTables, d \in PartitionDates :
        CreatePartition(c, t, d)
PartitionSubmitStep ==
    \E p \in Writers, t \in Tables : PartitionSubmit(p, Owner, t, Date(2025, 1, 1))
PartitionCreateStep == \E p \in Writers : PartitionCreate(p)

NextPartition ==
    \/ CreatePartitionCall
    \/ PartitionSubmitStep
    \/ PartitionCreateStep

SpecPartition == InitPartition /\ [][NextPartition]_vars

(***************************************************************************)
(* cleanup_old_telemetry_data statement by statement, next to the inserts  *)
(* of anonymous clients.  The function is one transaction: NOW() is the    *)
(* time it began, each DELETE sees what is committed when it starts, and   *)
(* its deletions and audit rows become visible when it returns.            *)
(***************************************************************************)
\* SELECT cleanup_old_telemetry_data(): cutoff_date := NOW() - INTERVAL '2 years'
CleanupBegin(p, caller) ==
    /\ txn[p].pc = "idle"
    /\ txn' = [txn EXCEPT ![p] =
                 [pc |-> IF CanExecute(caller, "cleanup_old_telemetry_data")
                             THEN "events" ELSE "done",
                  role |-> caller,
                  cutoff_date |-> now - TwoYears,
                  deleted_events |-> {}, deleted_workflows |-> {},
                  err |-> IF CanExecute(caller, "cleanup_old_telemetry_data")
                              THEN "ok" ELSE "insufficient_privilege"]]
    /\ UNCHANGED <<stores, nextId, now, last, req, catalog>>

\* variant: the DELETE has no WHERE clause and fires no trigger
CleanupDeleteEverything(p) ==
    /\ txn[p].pc \in {"events", "workflows"}
    /\ txn' = [txn EXCEPT ![p] =
                 IF txn[p].pc = "events"
                     THEN [@ EXCEPT !.pc = "workflows",
                                    !.deleted_events = telemetry_events]
                     ELSE [@ EXCEPT !.pc = "audit",
                                    !.deleted_workflows = telemetry_workflows]]
    /\ UNCHANGED <<stores, nextId, now, last, req, catalog>>
\* DELETE FROM telemetry_events / telemetry_workflows WHERE created_at <
\* cutoff_date, with the AFTER DELETE trigger for each row; an error ends the
\* function and undoes what it did
CleanupDelete(p) ==
    /\ txn[p].pc \in {"events", "workflows"}
    /\ LET table == IF txn[p].pc = "events"
                        THEN "telemetry_events" ELSE "telemetry_workflows"
           hit == Expired(VisibleRows(txn[p].role, table, "DELETE", TableRows(table)),
                          txn[p].cutoff_date)
           err == IF ~HasPrivilege(txn[p].role, table, "DELETE")
                      THEN "insufficient_privilege"
                  ELSE audit_telemetry_changes("DELETE", table, txn[p].role,
                           RoleSetting(txn[p].role), Cardinality(hit))
       IN  txn' = [txn EXCEPT ![p] =
                     IF err # "ok"
                         THEN [@ EXCEPT !.pc = "done", !.err = err,
                                        !.deleted_events = {},
                                        !.deleted_workflows = {}]
                     ELSE IF txn[p].pc = "events"
                         THEN [@ EXCEPT !.pc = "workflows", !.deleted_events = hit]
                         ELSE [@ EXCEPT !.pc = "audit", !.deleted_workflows = hit]]
    /\ UNCHANGED <<stores, nextId, now, last, req, catalog>>

\* INSERT INTO telemetry_audit_log ... the two summary rows; RETURN; the
\* transaction commits
CleanupReturn(p) ==
    /\ txn[p].pc = "audit"
    /\ LET err == AuditInsertError(txn[p].role, Some(IntegerValue(0)))
           ev == txn[p].deleted_events \cap telemetry_events
           wf == txn[p].deleted_workflows \cap telemetry_workflows
           began == txn[p].cutoff_date + TwoYears
       IN  /\ err = "ok" => Len(telemetry_audit_log) + 2
                                + Cardinality(ev) + Cardinality(wf) <= MaxAudit
           /\ IF err = "ok"
                THEN /\ telemetry_events' = telemetry_events \ ev
                     /\ telemetry_workflows' = telemetry_workflows \ wf
                     /\ telemetry_audit_log' = telemetry_audit_log \o
                           [i \in 1 .. 2 |->
                               [CleanupAuditRows(Cardinality(ev), Cardinality(wf))[i]
                                   EXCEPT !.metadata =
                                              [cutoff_date |-> txn[p].cutoff_date],
                                          !.created_at = began]]
                ELSE UNCHANGED stores
           /\ txn' = [txn EXCEPT ![p].pc = "done", ![p].err = err]
    /\ UNCHANGED <<nextId, now, last, req, catalog>>

NextConcurrentCleanup ==
    \/ RetentionInsertEvent
    \/ RetentionInsertWorkflow
    \/ Tick
    \/ \E caller \in {Owner, "service_role"} : CleanupBegin(1, caller)
    \/ CleanupDelete(1)
    \/ CleanupReturn(1)

SpecConcurrentCleanup == Init /\ [][NextConcurrentCleanup]_vars

(***************************************************************************)
(* Ingestion next to the partition manager: the insert functions and       *)
(* create_telemetry_partition on the database as the setup script leaves   *)
(* it.                                                                     *)
(***************************************************************************)
NextIngest ==
    \/ RetentionInsertEvent
    \/ RetentionInsertWorkflow
    \/ Tick
    \/ CreatePartitionCall

SpecIngest == Init /\ [][NextIngest]_vars

(***************************************************************************)
(* Lifecycle of the rows: the retention run, and the privileged principal  *)
(* updating and deleting rows directly.                                    *)
(***************************************************************************)
LifecycleUpdate ==
    \E f \in SpecFilters :
        \/ UpdateRows("service_role", "telemetry_events", f, Some("f"))
        \/ UpdateRows("service_role", "telemetry_workflows", f, Some("complex"))
LifecycleDelete ==
    \E t \in Tables, f \in SpecFilters : DeleteRows("service_role", t, f)

NextLifecycle ==
    \/ NextRetention
    \/ LifecycleUpdate
    \/ LifecycleDelete

SpecLifecycle == Init /\ [][NextLifecycle]_vars

(***************************************************************************)
(* created_at: the column has a DEFAULT, and a client that inserts into    *)
(* the table can name the column itself.                                   *)
(***************************************************************************)
\* from('telemetry_events').insert([{user_id, event, properties, created_at}]):
\* the DEFAULT NOW() is not used for a column the INSERT gives a value for
DirectInsertEventAt(role, user_id, event, properties, created_at) ==
    LET err == EventsInsertError(role, role, user_id, event, properties)
    IN  /\ err = "ok" => nextId <= MaxIds
        /\ IF err = "ok"
             THEN /\ telemetry_events' = telemetry_events \cup
                        {[EventRow(nextId, user_id, event, properties)
                             EXCEPT !.created_at = created_at]}
                  /\ telemetry_audit_log' = telemetry_audit_log \o
                        TriggerAuditRows("INSERT", "telemetry_events", role, 1)
                  /\ nextId' = nextId + 1
             ELSE UNCHANGED <<telemetry_events, telemetry_audit_log, nextId>>
        /\ last' = Call("directInsertEvent", role, "telemetry_events",
                        [user_id |-> user_id, event |-> event,
                         properties |-> properties, created_at |-> created_at],
                        err, NULL, {}, 0)
        /\ UNCHANGED <<telemetry_workflows, now, req, txn, catalog>>

DirectInsertEventAtCall ==
    \E role \in {"anon", "service_role"}, t \in ClockInstants :
        DirectInsertEventAt(role, Some(UserA), Some("e"), Some(Object), t)

NextCreatedAt ==
    \/ NextLifecycle
    \/ DirectInsertEventAtCall

SpecCreatedAt == Init /\ [][NextCreatedAt]_vars

(***************************************************************************)
(* What the data model calls a valid record.                               *)
(***************************************************************************)
ValidUserId(u) ==
    ~IsNull(u) /\ Len(Val(u)) >= 16 /\ Len(Val(u)) <= 64
ShortUserId(u) == ~IsNull(u) /\ Len(Val(u)) < 16
ObjectShaped(j) == ~IsNull(j) /\ Val(j).type = "object"
ValidEvent(a) ==
    /\ ValidUserId(a.user_id)
    /\ ~IsNull(a.event) /\ Len(Val(a.event)) >= 1 /\ Len(Val(a.event)) <= 100
    /\ ObjectShaped(a.properties)
ValidWorkflow(w) ==
    /\ ValidUserId(w.user_id)
    /\ ~IsNull(w.workflow_hash) /\ Len(Val(w.workflow_hash)) = 64
    /\ ~IsNull(w.node_count) /\ Val(w.node_count) > 0
    /\ ~IsNull(w.node_types) /\ Len(Val(w.node_types)) > 0
    /\ ~IsNull(w.has_trigger) /\ ~IsNull(w.has_webhook)
    /\ ~IsNull(w.complexity) /\ Val(w.complexity) \in {"simple", "medium", "complex"}
    /\ ObjectShaped(w.sanitized_workflow)
\* the stored rows with the key of a submission
RowsOfPair(w) ==
    {r \in telemetry_workflows :
        r.workflow_hash = Val(w.workflow_hash) /\ r.user_id = Val(w.user_id)}

(***************************************************************************)
(* C1.  A select by the anonymous principal on telemetry_events or         *)
(* telemetry_workflows fails with PermissionDenied whatever the filter and *)
(* returns no row; row level security alone already shows it no row, not   *)
(* even one it inserted.                                                   *)
(***************************************************************************)
C1_AnonSelectDenied ==
    /\ (last.op = "select" /\ last.role = "anon") =>
          /\ ErrorClass(last.err) = "PermissionDenied"
          /\ last.rows = {}
    /\ \A t \in Tables :
          VisibleRows("anon", t, "SELECT", TableRows(t)) = {}

\* the anonymous principal selects, with its own user_id as filter, from a
\* table that holds a row it inserted
C1_Witness ==
    /\ last.op = "select" /\ last.role = "anon"
    /\ last.table = "telemetry_events"
    /\ last.args.filter = Some(UserA)
    /\ \E r \in telemetry_events : r.user_id = UserA

(***************************************************************************)
(* C2.  An update or a delete by the anonymous principal fails with        *)
(* PermissionDenied and leaves the event, workflow and audit stores as     *)
(* they were; row level security gives it no row to act on.                *)
(***************************************************************************)
C2_AnonMutationDenied ==
    [][(last'.op \in {"update", "delete"} /\ last'.role = "anon") =>
          /\ ErrorClass(last'.err) = "PermissionDenied"
          /\ UNCHANGED stores
          /\ \A t \in Tables, c \in {"UPDATE", "DELETE"} :
                TargetRows("anon", t, c, NULL) = {}]_vars

C2_Witness ==
    /\ last.op = "delete" /\ last.role = "anon"
    /\ last.table = "telemetry_workflows"
    /\ telemetry_workflows # {}
    /\ telemetry_events # {}

(***************************************************************************)
(* C3.  Every call of a principal that is neither anonymous nor privileged *)
(* fails with PermissionDenied.                                            *)
(***************************************************************************)
C3_UnknownPrincipalDenied ==
    last.role = "authenticated" => ErrorClass(last.err) = "PermissionDenied"

(***************************************************************************)
(* C4.  getStats and the three rollups fail with PermissionDenied for the  *)
(* anonymous principal and return it nothing.                              *)
(***************************************************************************)
C4_AnonStatsDenied ==
    (last.role = "anon" /\ last.op \in {"getStats", "selectView"}) =>
        /\ ErrorClass(last.err) = "PermissionDenied"
        /\ last.rows = {}

(***************************************************************************)
(* C5.  No two rows of telemetry_workflows have the same (workflow_hash,   *)
(* user_id) pair, after any inserts by any role through the insert         *)
(* function, a direct insert or an upsert, and any cleanups.               *)
(***************************************************************************)
C5_UniquePair ==
    \A r1, r2 \in telemetry_workflows :
        (r1.workflow_hash = r2.workflow_hash /\ r1.user_id = r2.user_id) => r1 = r2

\* two rows share a hash, and a direct insert of a stored pair has just been refused
C5_Witness ==
    /\ \E r1, r2 \in telemetry_workflows :
          r1.workflow_hash = r2.workflow_hash /\ r1.user_id # r2.user_id
    /\ last.op = "directInsertWorkflow"
    /\ last.err = "unique_violation"

(***************************************************************************)
(* C6.  The first insertWorkflow of a valid submission for a pair returns  *)
(* a new identifier; a later one for the pair succeeds with no new row;    *)
(* in both cases exactly one row of the pair is stored afterwards.         *)
(***************************************************************************)
C6_DedupNoNewRow ==
    (last.op = "insertWorkflow" /\ last.role \in {"anon", "service_role"}
        /\ ValidWorkflow(last.args)) =>
        /\ last.err = "ok"
        /\ Cardinality(RowsOfPair(last.args)) = 1
        /\ ~IsNull(last.id) => \E r \in RowsOfPair(last.args) : r.id = Val(last.id)

(***************************************************************************)
(* C7.  When the writers have all submitted the same valid pair and all    *)
(* have returned, one row of the pair is stored, one writer has a new      *)
(* identifier, the others have no new row, and none has an error.          *)
(***************************************************************************)
RaceOver(W) ==
    /\ \A p \in W : txn[p].pc = "done"
    /\ \A p, q \in W :
          /\ txn[p].w.workflow_hash = txn[q].w.workflow_hash
          /\ txn[p].w.user_id = txn[q].w.user_id

RaceOutcome(W) ==
    /\ \A p \in W : txn[p].err = "ok"
    /\ Cardinality({p \in W : ~IsNull(txn[p].id)}) = 1
    /\ \A p \in W : Cardinality(RowsOfPair(txn[p].w)) = 1

C7_RaceOneRow ==
    \A W \in SUBSET Writers :
        (Cardinality(W) >= 2 /\ RaceOver(W)) => RaceOutcome(W)

\* the same, for anonymous writers only
RaceOneRowAnon ==
    \A W \in SUBSET Writers :
        (Cardinality(W) >= 2 /\ RaceOver(W) /\ \A p \in W : txn[p].role = "anon")
            => RaceOutcome(W)

\* two anonymous writers placed the same pair at the same time
RaceAnonWitness ==
    /\ \A p \in Writers : txn[p].pc = "done" /\ txn[p].role = "anon"
    /\ \A p, q \in Writers : txn[p].w = txn[q].w
    /\ \E p \in Writers : IsNull(txn[p].id)

(***************************************************************************)
(* C8.  insertEvent of a valid event by the anonymous principal succeeds   *)
(* in every state, adds exactly one row to telemetry_events, the row of    *)
(* the submitted fields, and returns its id, which no row stored so far    *)
(* has and which the id sequence had not yet handed out.                   *)
(***************************************************************************)
C8_AnonInsertEvent ==
    [][(last'.op = "insertEvent" /\ last'.role = "anon" /\ ValidEvent(last'.args)) =>
          /\ last'.err = "ok"
          /\ ~IsNull(last'.id)
          /\ Val(last'.id) >= nextId
          /\ nextId' > Val(last'.id)
          /\ \A r \in telemetry_events \cup telemetry_workflows : r.id < nextId
          /\ \E r \in telemetry_events' :
                /\ r \notin telemetry_events
                /\ telemetry_events' = telemetry_events \cup {r}
                /\ r.id = Val(last'.id)
                /\ r.user_id = Val(last'.args.user_id)
                /\ r.event = Val(last'.args.event)
                /\ r.properties = Val(last'.args.properties)
          /\ UNCHANGED <<telemetry_workflows, telemetry_audit_log>>]_vars

\* the anonymous principal has submitted the same valid event, with the
\* longest user_id and event name, a second time, and both are stored
C8_Witness ==
    /\ last.op = "insertEvent" /\ last.role = "anon" /\ last.err = "ok"
    /\ Len(Val(last.args.user_id)) = 64
    /\ Len(Val(last.args.event)) = 100
    /\ Cardinality({r \in telemetry_events : r.user_id = Val(last.args.user_id)}) = 2

(***************************************************************************)
(* C9.  insertEvent and insertWorkflow with a user_id shorter than 16      *)
(* characters fail with ValidationError for every caller and whatever the  *)
(* other fields are, and change no store.                                  *)
(***************************************************************************)
C9_ShortUserIdRejected ==
    [][(last'.op \in {"insertEvent", "insertWorkflow"} /\ ShortUserId(last'.args.user_id)) =>
          /\ ErrorClass(last'.err) = "ValidationError"
          /\ IsNull(last'.id)
          /\ UNCHANGED stores]_vars

\* a 15 character user_id was refused although every other field is valid
C9_Witness ==
    /\ last.op = "insertWorkflow"
    /\ ~IsNull(last.args.user_id) /\ Len(Val(last.args.user_id)) = 15
    /\ ValidWorkflow([last.args EXCEPT !.user_id = Some(UserA)])
    /\ ErrorClass(last.err) = "ValidationError"
    /\ telemetry_workflows # {}

(***************************************************************************)
(* C10.  insertEvent fails with ValidationError and stores no row when the *)
(* event name is empty or longer than 100 characters, or the properties    *)
(* are not object-shaped: absent, a JSON null, an array or a scalar.       *)
(***************************************************************************)
BadEventName(e) == ~IsNull(e) /\ (Len(Val(e)) = 0 \/ Len(Val(e)) > 100)

C10_BadEventRejected ==
    [][(last'.op = "insertEvent"
          /\ (BadEventName(last'.args.event) \/ ~ObjectShaped(last'.args.properties))) =>
          /\ ErrorClass(last'.err) = "ValidationError"
          /\ IsNull(last'.id)
          /\ UNCHANGED stores]_vars

\* an array was refused as properties of an otherwise valid event
C10_Witness ==
    /\ last.op = "insertEvent"
    /\ ValidEvent([last.args EXCEPT !.properties = Some(Object)])
    /\ ~IsNull(last.args.properties) /\ Val(last.args.properties).type = "array"
    /\ ErrorClass(last.err) = "ValidationError"
    /\ telemetry_events # {}

(***************************************************************************)
(* C11.  insertWorkflow fails with ValidationError and stores no row when  *)
(* workflow_hash has a length other than 64, node_count is zero or         *)
(* negative, complexity is not one of simple, medium, complex, or          *)
(* sanitized_workflow is not object-shaped; for every caller and whatever  *)
(* the other fields are.                                                   *)
(***************************************************************************)
BadWorkflowField(w) ==
    \/ ~IsNull(w.workflow_hash) /\ Len(Val(w.workflow_hash)) # 64
    \/ ~IsNull(w.node_count) /\ Val(w.node_count) <= 0
    \/ IsNull(w.complexity)
    \/ Val(w.complexity) \notin {"simple", "medium", "complex"}
    \/ ~ObjectShaped(w.sanitized_workflow)

C11_BadWorkflowRejected ==
    [][(last'.op = "insertWorkflow" /\ BadWorkflowField(last'.args)) =>
          /\ ErrorClass(last'.err) = "ValidationError"
          /\ IsNull(last'.id)
          /\ UNCHANGED stores]_vars

\* a submission whose only fault is a complexity outside the enum was refused
C11_Witness ==
    /\ last.op = "insertWorkflow"
    /\ ~IsNull(last.args.complexity) /\ Val(last.args.complexity) = "huge"
    /\ ValidWorkflow([last.args EXCEPT !.complexity = Some("simple")])
    /\ ErrorClass(last.err) = "ValidationError"
    /\ telemetry_workflows # {}

(***************************************************************************)
(* C12.  insertWorkflow with an empty node_types list fails with           *)
(* ValidationError, and every stored workflow row has a non-empty          *)
(* node_types list.                                                        *)
(***************************************************************************)
C12_NodeTypesNonEmpty ==
    /\ (last.op = "insertWorkflow" /\ last.args.node_types = Some(<<>>)) =>
          ErrorClass(last.err) = "ValidationError"
    /\ \A r \in telemetry_workflows : Len(r.node_types) > 0

(***************************************************************************)
(* C13.  A mutation of the privileged principal that the store accepts (a  *)
(* valid new record, or an update or delete that has rows to act on)       *)
(* succeeds and adds exactly one audit entry, whose table_name and         *)
(* operation are those of the mutation, whether one row or several rows    *)
(* are affected.                                                           *)
(***************************************************************************)
\* the mutation of the step is one the store has no reason to refuse
AcceptedMutation ==
    \/ /\ last'.op \in {"insertEvent", "directInsertEvent"}
       /\ ValidEvent(last'.args)
    \/ /\ last'.op \in {"insertWorkflow", "directInsertWorkflow"}
       /\ ValidWorkflow(last'.args)
       /\ RowsOfPair(last'.args) = {}
    \/ /\ last'.op = "delete"
       /\ \E r \in TableRows(last'.table) : Matches(r, last'.args.filter)
    \/ /\ last'.op = "update"
       /\ \E r \in TableRows(last'.table) : Matches(r, last'.args.filter)
       /\ last'.args.v \in {Some("e"), Some("complex")}

OperationOf(op) ==
    CASE op = "delete" -> "DELETE"
      [] op = "update" -> "UPDATE"
      [] OTHER -> "INSERT"

\* the step appended exactly one audit entry, for this table and operation
OneAuditEntry(table_name, operation) ==
    /\ Len(telemetry_audit_log') = Len(telemetry_audit_log) + 1
    /\ SubSeq(telemetry_audit_log', 1, Len(telemetry_audit_log)) = telemetry_audit_log
    /\ telemetry_audit_log'[Len(telemetry_audit_log')].table_name = table_name
    /\ telemetry_audit_log'[Len(telemetry_audit_log')].operation = operation

C13_PrivilegedMutationAudited ==
    [][(last'.role = "service_role" /\ AcceptedMutation) =>
          /\ last'.err = "ok"
          /\ OneAuditEntry(last'.table, OperationOf(last'.op))]_vars

(***************************************************************************)
(* C14.  An insert by the anonymous principal into telemetry_events or     *)
(* telemetry_workflows, direct or through insert_telemetry_event /         *)
(* insert_telemetry_workflow, leaves the audit log as it was.              *)
(***************************************************************************)
InsertOps ==
    {"insertEvent", "directInsertEvent", "insertWorkflow", "directInsertWorkflow"}

C14_AnonInsertNotAudited ==
    [][(last'.role = "anon" /\ last'.op \in InsertOps) =>
          UNCHANGED telemetry_audit_log]_vars

\* an anonymous insert was stored while the audit log held entries
C14_Witness ==
    /\ last.role = "anon" /\ last.op \in InsertOps /\ last.err = "ok"
    /\ ~IsNull(last.id)
    /\ Len(telemetry_audit_log) = 2
    /\ telemetry_events # {}

(***************************************************************************)
(* C15.  A mutation of the privileged principal and its audit entry are    *)
(* one unit of work: when the audit write fails the mutation fails and the *)
(* event and workflow stores stay as they were, and no step of the         *)
(* privileged principal changes a telemetry store without extending the    *)
(* audit log.                                                              *)
(***************************************************************************)
MutationOps == InsertOps \cup {"upsertWorkflow", "update", "delete"}

\* the audit write of the step's statement failed
AuditWriteFailed ==
    /\ last'.op \in MutationOps
    /\ last'.err = "datatype_mismatch"

C15_AuditFailClosed ==
    [][last'.role = "service_role" =>
          /\ AuditWriteFailed => UNCHANGED stores
          /\ (last'.op \in MutationOps
                /\ <<telemetry_events, telemetry_workflows>>' #
                       <<telemetry_events, telemetry_workflows>>)
               => Len(telemetry_audit_log') > Len(telemetry_audit_log)]_vars

\* a privileged delete of stored rows failed in its audit write; the rows are there
C15_Witness ==
    /\ last.role = "service_role" /\ last.op = "delete"
    /\ last.err = "datatype_mismatch"
    /\ \E r \in TableRows(last.table) : Matches(r, last.args.filter)

(***************************************************************************)
(* C16.  Every operation of the privileged principal on telemetry_events   *)
(* or telemetry_workflows that succeeds, a read as much as a mutation that *)
(* changes rows, is recorded by one audit entry.                           *)
(***************************************************************************)
C16_PrivilegedOperationsAudited ==
    [][(/\ last'.role = "service_role"
        /\ last'.err = "ok"
        /\ \/ last'.op = "select"
           \/ /\ last'.op \in MutationOps
              /\ <<telemetry_events, telemetry_workflows>>' #
                     <<telemetry_events, telemetry_workflows>>) =>
          Len(telemetry_audit_log') = Len(telemetry_audit_log) + 1]_vars

(***************************************************************************)
(* Retention claims.  The horizon is two years before the clock reading of *)
(* the cleanup; the callers are the owner's scheduled job and the          *)
(* privileged principal.                                                   *)
(***************************************************************************)
CleanupCallers == {"postgres", "service_role"}
PastHorizon(rows) == {r \in rows : r.created_at < now - 730}
\* the rows the step removed
Removed ==
    (telemetry_events \ telemetry_events') \cup
    (telemetry_workflows \ telemetry_workflows')

(***************************************************************************)
(* C17.  A cleanup deletes every event row and every workflow row with     *)
(* created_at < now - 2 years and no other row: a row exactly at the       *)
(* cutoff is kept.                                                         *)
(***************************************************************************)
C17_CleanupDeletesExpired ==
    [][(last'.op = "cleanup" /\ last'.role \in CleanupCallers) =>
          /\ telemetry_events' = telemetry_events \ PastHorizon(telemetry_events)
          /\ telemetry_workflows' =
                telemetry_workflows \ PastHorizon(telemetry_workflows)]_vars

(***************************************************************************)
(* C18.  In the state a cleanup leaves, a further cleanup with no insert   *)
(* in between succeeds, finds nothing to delete and returns 0.             *)
(***************************************************************************)
C18_SecondCleanupDeletesNothing ==
    (last.op = "cleanup" /\ last.role \in CleanupCallers) =>
        \A caller \in CleanupCallers :
            /\ cleanup_error(caller) = "ok"
            /\ CleanupEvents(caller) = {}
            /\ CleanupWorkflows(caller) = {}
            /\ PastHorizon(telemetry_events \cup telemetry_workflows) = {}

(***************************************************************************)
(* C19.  Each cleanup appends exactly two audit entries, one per store,    *)
(* with operation DELETE, user_role system, record_count the number of     *)
(* rows it deleted from that store and the cutoff as metadata, and no      *)
(* other entry, however many rows it deletes.                              *)
(***************************************************************************)
SummaryEntry(e, table_name, n) ==
    /\ e.operation = "DELETE"
    /\ e.table_name = table_name
    /\ e.user_role = "system"
    /\ e.record_count = Some([type |-> "integer", v |-> n])
    /\ e.metadata = [cutoff_date |-> now - 730]

C19_CleanupAuditEntries ==
    [][(last'.op = "cleanup" /\ last'.role \in CleanupCallers) =>
          /\ last'.err = "ok"
          /\ Len(telemetry_audit_log') = Len(telemetry_audit_log) + 2
          /\ SubSeq(telemetry_audit_log', 1, Len(telemetry_audit_log)) =
                telemetry_audit_log
          /\ SummaryEntry(telemetry_audit_log'[Len(telemetry_audit_log) + 1],
                "telemetry_events",
                Cardinality(telemetry_events \ telemetry_events'))
          /\ SummaryEntry(telemetry_audit_log'[Len(telemetry_audit_log) + 2],
                "telemetry_workflows",
                Cardinality(telemetry_workflows \ telemetry_workflows'))]_vars

(***************************************************************************)
(* C20.  When a cleanup that had rows to delete fails, the rows it had     *)
(* deleted stay deleted, it reports their number, and an audit entry for   *)
(* the partial result is recorded.                                         *)
(***************************************************************************)
C20_CleanupPartialFailure ==
    [][(/\ last'.op = "cleanup" /\ last'.role \in CleanupCallers
        /\ last'.err # "ok"
        /\ PastHorizon(telemetry_events \cup telemetry_workflows) # {}) =>
          /\ Removed # {}
          /\ last'.n = Cardinality(Removed)
          /\ Len(telemetry_audit_log') > Len(telemetry_audit_log)]_vars

FirstOfMonth(d) == Date(d.year, d.month, 1)
FirstOfNextMonth(d) ==
    IF d.month = 12 THEN Date(d.year + 1, 1, 1) ELSE Date(d.year, d.month + 1, 1)
SameMonth(d, e) == d.year = e.year /\ d.month = e.month

\* the partitions of a store for the month of a reference date
PartitionsOfMonth(table_name, d) ==
    {q \in catalog.partitions :
        q.parent = table_name /\ q.name = PartitionName(table_name, d)}

\* C23: a successful create_telemetry_partition(store, date), for either store
\* and any day of the month, leaves a partition named <store>_<YYYY>_<MM> that
\* covers exactly [first day of the date's month, first day of the next month).
C23_PartitionCoversMonth ==
    (/\ last.op = "createPartition" /\ last.err = "ok"
     /\ last.table \in Tables)
    => \E q \in catalog.partitions :
          /\ q.parent = last.table
          /\ q.name = PartitionName(last.table, last.args.start_date)
          /\ q.from = FirstOfMonth(last.args.start_date)
          /\ q.to = FirstOfNextMonth(last.args.start_date)

\* C24: after a call for a store and a month, a second call for the same store
\* and month, with the same or another date of that month, succeeds, changes
\* nothing and leaves exactly one partition for that store and month.
C24_SecondCallNoOp ==
    (last.op = "createPartition" /\ last.table \in Tables)
    => \A d \in PartitionDates :
          SameMonth(d, last.args.start_date) =>
             LET err == create_telemetry_partition_error(last.role, last.table, d)
             IN  /\ err = "ok"
                 /\ CatalogAfter(err, last.table, d) = catalog
                 /\ Cardinality(PartitionsOfMonth(last.table, d)) = 1

\* C25: when two callers have created the partition of the same store and month
\* concurrently, neither got an error and exactly one such partition exists.
C25_ConcurrentCreatorsNoError ==
    \A p \in Writers, q \in Writers :
        (/\ p # q
         /\ txn[p].pc = "done" /\ txn[q].pc = "done"
         /\ txn[p].table = txn[q].table
         /\ txn[p].table \in catalog.partitioned
         /\ SameMonth(txn[p].start_date, txn[q].start_date))
        => /\ txn[p].err = "ok" /\ txn[q].err = "ok"
           /\ Cardinality(PartitionsOfMonth(txn[p].table, txn[p].start_date)) = 1

\* the users with a row of either table in the window [lo, hi]
UsersInWindow(lo, hi) ==
    {u \in {UserA, UserB} :
        \/ \E r \in telemetry_events :
              r.user_id = u /\ lo <= r.created_at /\ r.created_at <= hi
        \/ \E r \in telemetry_workflows :
              r.user_id = u /\ lo <= r.created_at /\ r.created_at <= hi}

\* C26: getStats(start, end) returns as unique_users the number of distinct
\* user_id values over the event rows and the workflow rows of the window, a
\* user of both tables counted once.
C26_UniqueUsersIsUnion ==
    (last.op = "getStats" /\ last.err = "ok")
    => /\ \E x \in last.rows : x.metric = "unique_users"
       /\ \A x \in last.rows :
             x.metric = "unique_users" =>
                x.value = Cardinality(UsersInWindow(last.args.start_date,
                                                    last.args.end_date))

\* a user with an event and a workflow in the window counts once
C26_Witness ==
    /\ last.op = "getStats" /\ last.err = "ok"
    /\ \E u \in {UserA, UserB} :
          /\ \E r \in telemetry_events :
                r.user_id = u /\ Between(r.created_at, last.args.start_date,
                                         last.args.end_date)
          /\ \E r \in telemetry_workflows :
                r.user_id = u /\ Between(r.created_at, last.args.start_date,
                                         last.args.end_date)
    /\ [metric |-> "unique_users", value |-> 1] \in last.rows

\* C27: a mutation of the service role that ends with its own error, a failed
\* validation or a constraint violation, still appends an audit entry.
C27_FailedMutationAudited ==
    [][(/\ last'.role = "service_role"
        /\ last'.op \in MutationOps
        /\ ErrorClass(last'.err) \in {"ValidationError", "Conflict"})
       => Len(telemetry_audit_log') = Len(telemetry_audit_log) + 1]_vars

\* the user_id of every stored row has between 16 and 64 characters
StoredUserIdsInRange ==
    /\ \A r \in telemetry_events' : Len(r.user_id) >= 16 /\ Len(r.user_id) <= 64
    /\ \A r \in telemetry_workflows' : Len(r.user_id) >= 16 /\ Len(r.user_id) <= 64

\* the step is an insert with a user_id of more than 64 characters
LongUserIdInsert ==
    /\ last'.op \in InsertOps
    /\ ~IsNull(last'.args.user_id)
    /\ Len(Val(last'.args.user_id)) > 64

\* the characters of the submitted user_id after the 64th are all spaces
OnlySpacesBeyond64 ==
    \A i \in 65 .. Len(Val(last'.args.user_id)) :
        SubSeq(Val(last'.args.user_id), i, i) = " "

\* C28 as stated: every stored row has a user_id of 16 to 64 characters, and an
\* insert with a user_id of more than 64 characters stores no row.
C28_LongUserIdStoresNoRow ==
    [][/\ StoredUserIdsInRange
       /\ LongUserIdInsert => UNCHANGED <<telemetry_events, telemetry_workflows>>]_vars

\* C28, amended: every stored row has a user_id of 16 to 64 characters; an
\* insert with a user_id of more than 64 characters stores no row, unless the
\* characters after the 64th are all spaces: then the row it stores carries
\* the first 64 characters as user_id.
C28_UserIdLength ==
    [][/\ StoredUserIdsInRange
       /\ LongUserIdInsert =>
             \/ UNCHANGED <<telemetry_events, telemetry_workflows>>
             \/ /\ OnlySpacesBeyond64
                /\ \E r \in (telemetry_events' \ telemetry_events)
                              \cup (telemetry_workflows' \ telemetry_workflows) :
                      r.user_id = SubSeq(Val(last'.args.user_id), 1, 64)]_vars

\* both cases have happened: a row stored under the first 64 characters of a
\* longer user_id
C28_Witness ==
    /\ last.op \in InsertOps /\ last.err = "ok"
    /\ Len(Val(last.args.user_id)) = 65
    /\ \E r \in TableRows(last.table) :
          r.user_id = SubSeq(Val(last.args.user_id), 1, 64)

\* the rows of a step's new state that the old state did not hold, by identifier
NewRows(old, new) == {r \in new : \A o \in old : o.id # r.id}

\* C29: a row's created_at is the server time of its insertion, whoever inserts
\* it and by which path, and it never changes afterwards.
C29_CreatedAtServerAssigned ==
    [][/\ \A r \in NewRows(telemetry_events, telemetry_events')
              \cup NewRows(telemetry_workflows, telemetry_workflows') :
             r.created_at = now'
       /\ \A o \in telemetry_events, r \in telemetry_events' :
             o.id = r.id => r.created_at = o.created_at
       /\ \A o \in telemetry_workflows, r \in telemetry_workflows' :
             o.id = r.id => r.created_at = o.created_at]_vars

\* the stored event rows with the fields of a submission
RowsOfEvent(a) ==
    {r \in telemetry_events :
        /\ r.user_id = Val(a.user_id)
        /\ r.event = Val(a.event)
        /\ r.properties = Val(a.properties)}

\* C30: insertEvent of a valid (user_id, event, properties) that is stored
\* already succeeds again, adds one more row with these fields and returns an
\* identifier that no stored row has: k calls give k rows and k identifiers.
C30_InsertEventNeverDeduplicates ==
    [][(/\ last'.op = "insertEvent"
        /\ last'.role \in {"anon", "service_role"}
        /\ ValidEvent(last'.args)
        /\ RowsOfEvent(last'.args) # {})
       => /\ last'.err = "ok"
          /\ ~IsNull(last'.id)
          /\ \A r \in telemetry_events : r.id # Val(last'.id)
          /\ \E r \in telemetry_events' :
                /\ r.id = Val(last'.id)
                /\ telemetry_events' = telemetry_events \cup {r}
                /\ Cardinality({x \in telemetry_events' :
                                   /\ x.user_id = r.user_id
                                   /\ x.event = r.event
                                   /\ x.properties = r.properties})
                      = Cardinality(RowsOfEvent(last'.args)) + 1]_vars

\* C31: a cleanup returns the number of event rows plus the number of workflow
\* rows it deleted, and that number is the decrease in size of the two stores.
C31_CleanupReturnsRemoved ==
    [][(last'.op = "cleanup" /\ last'.role \in CleanupCallers) =>
          /\ last'.err = "ok"
          /\ last'.n = Cardinality(telemetry_events \ telemetry_events')
                         + Cardinality(telemetry_workflows \ telemetry_workflows')
          /\ last'.n = (Cardinality(telemetry_events)
                           + Cardinality(telemetry_workflows))
                       - (Cardinality(telemetry_events')
                           + Cardinality(telemetry_workflows'))
          /\ last'.n = Cardinality(PastHorizon(telemetry_events))
                         + Cardinality(PastHorizon(telemetry_workflows))]_vars

RECURSIVE AddDays(_, _)
\* the date k days after d
AddDays(d, k) ==
    IF d.day + k <= DaysInMonth(d.year, d.month)
        THEN Date(d.year, d.month, d.day + k)
        ELSE AddDays(FirstOfNextMonth(d),
                     k - (DaysInMonth(d.year, d.month) - d.day + 1))

\* the calendar date of a clock instant; instant 0 is 2025-01-01
DateOfInstant(t) == AddDays(Date(2025, 1, 1), t)

\* a partition of the table holds the rows of the date
Covered(table_name, d) ==
    \E q \in catalog.partitions :
        /\ q.parent = table_name
        /\ DateOrd(q.from) <= DateOrd(d)
        /\ DateOrd(d) < DateOrd(q.to)

\* C32: every stored event and workflow row lies in a partition of its store
\* that covers the month of its created_at: no insert writes a row for a month
\* whose partition has not been created.
C32_RowsHavePartition ==
    /\ \A r \in telemetry_events :
          Covered("telemetry_events", DateOfInstant(r.created_at))
    /\ \A r \in telemetry_workflows :
          Covered("telemetry_workflows", DateOfInstant(r.created_at))

\* C33: create_telemetry_partition with the name of the audit store, or any
\* name other than telemetry_events and telemetry_workflows, returns without
\* creating a partition and leaves the state as it was (a step that is this
\* call leaves the concurrent callers where they are); every partition there
\* is belongs to one of the two stores.
C33_OnlyTwoStoresPartitioned ==
    [][/\ (last'.op = "createPartition" /\ txn' = txn
              /\ last'.table \notin {"telemetry_events", "telemetry_workflows"})
          => /\ last'.err = "ok"
             /\ UNCHANGED <<catalog, stores, nextId, now>>
       /\ \A q \in catalog'.partitions :
             q.parent \in {"telemetry_events", "telemetry_workflows"}]_vars

\* a call for the audit store on converted tables that do have partitions
C33_Witness ==
    /\ last.op = "createPartition" /\ last.err = "ok"
    /\ last.table = "telemetry_audit_log"
    /\ last.role = Owner
    /\ catalog.partitioned = Tables
    /\ catalog.partitions # {}

\* the step is a call of an insert function by the anonymous principal with a
\* valid record, the cleanup being wherever it is
AnonValidInsert ==
    /\ txn' = txn
    /\ last'.role = "anon"
    /\ \/ last'.op = "insertEvent" /\ ValidEvent(last'.args)
       \/ last'.op = "insertWorkflow" /\ ValidWorkflow(last'.args)

TodayRows(rows) == {x \in rows : x.metric \in {"events_today", "workflows_today"}}

\* C35: events_today and workflows_today of getStats are the numbers of event
\* and workflow rows created on the current date, whatever the window: a call
\* with any other start and end in the same state returns the same two rows.
C35_TodayIgnoresWindow ==
    (last.op = "getStats" /\ last.err = "ok")
    => /\ TodayRows(last.rows) =
             {[metric |-> "events_today",
               value |-> Cardinality({r \in telemetry_events : r.created_at = now})],
              [metric |-> "workflows_today",
               value |-> Cardinality({r \in telemetry_workflows :
                                         r.created_at = now})]}
       /\ \A start_date \in ClockInstants \cup {now - 30},
             end_date \in ClockInstants :
             TodayRows(get_telemetry_stats(start_date, end_date)) =
                TodayRows(last.rows)

\* a call whose window holds no row of today, while rows of today and older
\* rows are stored
C35_Witness ==
    /\ last.op = "getStats" /\ last.err = "ok"
    /\ last.args.start_date > last.args.end_date
    /\ [metric |-> "total_events", value |-> 0] \in last.rows
    /\ [metric |-> "events_today", value |-> 1] \in last.rows

\* C36: when the anonymous principal submits a valid workflow whose hash is
\* stored for another user_id and whose own pair is not stored, by
\* insertWorkflow or by the upsert of the client script, the submission
\* succeeds and stores a new row of the pair under a new identifier, which
\* insertWorkflow returns.
C36_DedupKeyedOnPair ==
    [][(/\ last'.role = "anon"
        /\ last'.op \in {"insertWorkflow", "upsertWorkflow"}
        /\ ValidWorkflow(last'.args)
        /\ RowsOfPair(last'.args) = {}
        /\ \E o \in telemetry_workflows :
              /\ o.workflow_hash = Val(last'.args.workflow_hash)
              /\ o.user_id # Val(last'.args.user_id))
       => /\ last'.err = "ok"
          /\ \E r \in telemetry_workflows' :
                /\ telemetry_workflows' = telemetry_workflows \cup {r}
                /\ r.workflow_hash = Val(last'.args.workflow_hash)
                /\ r.user_id = Val(last'.args.user_id)
                /\ \A o \in telemetry_workflows : o.id # r.id
                /\ last'.op = "insertWorkflow" => last'.id = Some(r.id)]_vars

\* the submission under test, made by the anonymous principal through the
\* insert function, would store a row in this state
FunctionStores ==
    IF req.op \in {"insertEvent", "directInsertEvent"}
        THEN insert_telemetry_event_error("anon", req.args.user_id, req.args.event,
                                          req.args.properties) = "ok"
        ELSE insert_telemetry_workflow_error("anon", req.args) = "ok"

\* the same values, inserted into the table directly, would store a row
DirectStores ==
    IF req.op \in {"insertEvent", "directInsertEvent"}
        THEN EventsInsertError("anon", "anon", req.args.user_id, req.args.event,
                               req.args.properties) = "ok"
        ELSE WorkflowsInsertError("anon", "anon", req.args, FALSE) = "ok"

\* a field the function measures is longer than its column, by spaces only
PaddedBeyondColumn ==
    IF req.op \in {"insertEvent", "directInsertEvent"}
        THEN /\ Len(Val(req.args.event)) > 100
             /\ SubSeq(Val(req.args.event), 1, 100) \o " " = Val(req.args.event)
        ELSE /\ Len(Val(req.args.workflow_hash)) > 64
             /\ SubSeq(Val(req.args.workflow_hash), 1, 64) \o " "
                   = Val(req.args.workflow_hash)

\* C37 as stated: for every input of the anonymous principal the insert
\* function stores a row if and only if a direct insert of the same values
\* stores a row.
C37_FunctionAcceptsWhatTableAccepts ==
    FunctionStores <=> DirectStores

\* C37, amended: whatever the insert function stores, a direct insert of the
\* same values stores too; a direct insert stores a row the function refuses
\* only for an event or a workflow_hash that is longer than its column by
\* trailing spaces, which the column cuts off and the function counts.
C37_FunctionWithinTable ==
    /\ FunctionStores => DirectStores
    /\ (DirectStores /\ ~FunctionStores) => PaddedBeyondColumn

\* a direct insert has stored an event of 100 characters and a space that
\* insert_telemetry_event refuses
C37_Witness ==
    /\ last.op = "directInsertEvent" /\ last.role = "anon" /\ last.err = "ok"
    /\ last.args = req.args
    /\ Len(Val(req.args.event)) = 101
    /\ \E r \in telemetry_events : Len(r.event) = 100
    /\ EventValidationError(req.args.user_id, req.args.event,
                            req.args.properties) = "raise_exception"

\* C38: a step of the anonymous principal, an insert or a cleanup, leaves the
\* audit log as it was, and a cleanup called by the anonymous principal
\* removes no event row and no workflow row.
C38_AnonCannotCleanUp ==
    [][last'.role = "anon" =>
          /\ UNCHANGED telemetry_audit_log
          /\ last'.op = "cleanup" =>
                /\ Removed = {}
                /\ UNCHANGED <<telemetry_events, telemetry_workflows>>]_vars

\* a cleanup called by the anonymous principal while expired rows are stored
C38_Witness ==
    /\ last.op = "cleanup" /\ last.role = "anon"
    /\ PastHorizon(telemetry_events) # {}
    /\ PastHorizon(telemetry_workflows) # {}
    /\ telemetry_audit_log = <<>>

\* C39: right after a cleanup, an insertWorkflow of a valid submission whose
\* pair has no row younger than the cutoff (its row, if it had one, is what the
\* cleanup had to delete) stores a new row of the pair and returns its new
\* identifier.
C39_DedupEndsWithRetention ==
    [][(/\ last.op = "cleanup" /\ last.role \in CleanupCallers
        /\ last'.op = "insertWorkflow" /\ last'.role = "anon"
        /\ ValidWorkflow(last'.args)
        /\ \A r \in RowsOfPair(last'.args) : r.created_at < now - 730)
       => /\ last'.err = "ok"
          /\ ~IsNull(last'.id)
          /\ \A o \in telemetry_workflows : o.id # Val(last'.id)
          /\ \E r \in telemetry_workflows' :
                /\ r.id = Val(last'.id)
                /\ r.user_id = Val(last'.args.user_id)
                /\ r.workflow_hash = Val(last'.args.workflow_hash)
                /\ r.created_at = now]_vars

====
